---- MODULE Spec2Model ----
(***************************************************************************)
(* Predator-prey world: the per-tick update cycle of World (snapshot,      *)
(* decision, commit, cull, capacity enforcement) and its public            *)
(* operations, over the two populations and the id allocator.              *)
(*                                                                         *)
(* Numbers.  The program computes in f64; the model computes in integers.  *)
(* A vector is a pair <<x, y>>.  Every quantity that the program obtains   *)
(* by a division or a square root (normalize, scale by 0.95 / 0.9) is      *)
(* truncated toward zero; a distance is carried as its square, and every   *)
(* comparison of a distance with a radius compares the squares, which is   *)
(* the same order for the non-negative radii used here.  dt is 1           *)
(* (tick_rate 1), so products with dt are exact.                           *)
(***************************************************************************)
EXTENDS Integers, Sequences, FiniteSets, TLC

(* ------------------------------------------------------------------ *)
(* Bounds of the exploration                                           *)
(* ------------------------------------------------------------------ *)
MaxTicks == 2

MaxOps == 1

\* largest count passed to spawn_predators / spawn_prey
MaxSpawn == 2

\* largest component of a vector passed to set_velocity
MaxComponent == 4

\* largest coordinate, either way, of a position passed to wrap_position or
\* clamp_position
MaxCoordinate == 12

(* ------------------------------------------------------------------ *)
(* utils/math.rs                                                       *)
(* ------------------------------------------------------------------ *)
Abs(a) == IF a < 0 THEN -a ELSE a

Min(a, b) == IF a <= b THEN a ELSE b

Max(a, b) == IF a >= b THEN a ELSE b

\* f64 division a / b with the quotient truncated toward zero (b > 0)
TruncDiv(a, b) == IF a >= 0 THEN a \div b ELSE -((-a) \div b)

Zero == <<0, 0>>

Add(v, w) == <<v[1] + w[1], v[2] + w[2]>>

Subtract(v, w) == <<v[1] - w[1], v[2] - w[2]>>

MagnitudeSquared(v) == v[1] * v[1] + v[2] * v[2]

\* v.scale(num/den), each component truncated toward zero
Scale(v, num, den) == <<TruncDiv(v[1] * num, den), TruncDiv(v[2] * num, den)>>

\* trunc(c * s / sqrt(m2)) for |c| <= sqrt(m2), m2 > 0, s >= 0: the largest
\* k in 0..s with k * sqrt(m2) <= |c| * s, with the sign of c
ScaledComponent(c, s, m2) ==
    LET k == CHOOSE k \in 0..s :
                 /\ k * k * m2 <= c * c * s * s
                 /\ \A j \in 0..s : j * j * m2 <= c * c * s * s => j <= k
    IN IF c < 0 THEN -k ELSE k

\* v.normalize().scale(s): the zero vector stays zero
NormalizeScale(v, s) ==
    IF MagnitudeSquared(v) > 0
    THEN <<ScaledComponent(v[1], s, MagnitudeSquared(v)),
           ScaledComponent(v[2], s, MagnitudeSquared(v))>>
    ELSE Zero

\* mutant: each component is cut to [-max, max] on its own
LimitPerAxis(v, max) == <<Min(Max(v[1], -max), max), Min(Max(v[2], -max), max)>>

\* v.limit(max): unchanged when |v| <= max, else direction kept at length max
Limit(v, max) ==
    IF MagnitudeSquared(v) > max * max THEN NormalizeScale(v, max) ELSE v

\* mutant: the straight-line distance, squared
DistanceSquared(pos1, pos2, width, height) ==
    (pos1[1] - pos2[1]) * (pos1[1] - pos2[1]) + (pos1[2] - pos2[2]) * (pos1[2] - pos2[2])

\* distance_torus, squared: per axis min(|d|, dimension - |d|)
DistanceTorus2(pos1, pos2, width, height) ==
    LET dx == Abs(pos1[1] - pos2[1])
        dy == Abs(pos1[2] - pos2[2])
        dx_wrapped == Min(dx, width - dx)
        dy_wrapped == Min(dy, height - dy)
    IN dx_wrapped * dx_wrapped + dy_wrapped * dy_wrapped

\* mutant: the coordinate is reduced modulo the dimension
WrapAxisModulo(c, dim) == c % dim

WrapAxis(c, dim) == IF c < 0 THEN c + dim ELSE IF c >= dim THEN c - dim ELSE c

WrapPosition(pos, width, height) ==
    <<WrapAxis(pos[1], width), WrapAxis(pos[2], height)>>

ClampPosition(pos, width, height) ==
    <<Min(Max(pos[1], 0), width), Min(Max(pos[2], 0), height)>>

(* ------------------------------------------------------------------ *)
(* config/parameters.rs                                                *)
(* ------------------------------------------------------------------ *)
DefaultPredatorParameters ==
    [initial_energy |-> 3, max_speed |-> 2, perception_radius |-> 8,
     capture_distance |-> 2, energy_per_tick |-> 1, energy_gain_from_prey |-> 2,
     reproduction_threshold |-> 3, reproduction_cost |-> 2, initial_count |-> 2]

DefaultPreyParameters ==
    [initial_energy |-> 2, max_speed |-> 3, detection_radius |-> 10,
     flee_distance |-> 4, energy_regeneration |-> 1, energy_loss_fleeing |-> 1,
     reproduction_threshold |-> 4, reproduction_cost |-> 2, initial_count |-> 1]

DefaultWorldParameters ==
    [width |-> 60, height |-> 60, boundary_type |-> "Wraparound"]

DefaultSimulationParameters ==
    [tick_rate |-> 1, max_agents |-> 4, enable_reproduction |-> TRUE, dt |-> 1]

DefaultParameters ==
    [predator |-> DefaultPredatorParameters, prey |-> DefaultPreyParameters,
     world |-> DefaultWorldParameters, simulation |-> DefaultSimulationParameters]

\* reflecting walls, reproduction switched off, one predator and two prey
WallsParameters ==
    [DefaultParameters EXCEPT !.world.boundary_type = "Walls",
                              !.simulation.enable_reproduction = FALSE,
                              !.predator.initial_count = 1,
                              !.prey.initial_count = 2]

\* a ceiling below the seeded population
CrowdedParameters ==
    [DefaultParameters EXCEPT !.simulation.max_agents = 2]

\* a world less than half as wide
NarrowParameters ==
    [DefaultParameters EXCEPT !.world.width = 24]

\* metabolism that starves a fresh predator in one tick; prey whose fleeing
\* cost and reproduction cost can take all the energy they have
HarshParameters ==
    [DefaultParameters EXCEPT !.predator.energy_per_tick = 4,
                              !.prey.energy_loss_fleeing = 4,
                              !.prey.reproduction_threshold = 3,
                              !.prey.reproduction_cost = 3]

\* rates below zero, which validate() accepts: regeneration that takes energy
\* from a prey, a capture that costs the predator more than a tick's upkeep
DrainingParameters ==
    [DefaultParameters EXCEPT !.prey.energy_regeneration = -3,
                              !.predator.energy_gain_from_prey = -3]

\* a retuning: predators that see less far, newborns that start richer, and a
\* ceiling of one agent
RetunedParameters ==
    [DefaultParameters EXCEPT !.predator.perception_radius = 4,
                              !.predator.initial_energy = 4,
                              !.prey.initial_energy = 3,
                              !.simulation.max_agents = 1]

\* prey that start with energy to spare: a prey that pays the fleeing cost is
\* still at its reproduction threshold; one predator, a ceiling of two
FertileParameters ==
    [DefaultParameters EXCEPT !.prey.initial_energy = 4,
                              !.predator.initial_count = 1,
                              !.simulation.max_agents = 2]

\* a configuration that validate() rejects: a tick rate of zero with dt left
\* as it was (dt is a field of its own, set only by update_dt)
UnvalidatedParameters ==
    [DefaultParameters EXCEPT !.simulation.tick_rate = 0]

\* mutant: the initial energies are tested before the speeds
ValidateEnergyFirst(params) ==
    IF params.world.width <= 0 \/ params.world.height <= 0
    THEN "World dimensions must be positive"
    ELSE IF params.predator.initial_energy <= 0 \/ params.prey.initial_energy <= 0
    THEN "Initial energy must be positive"
    ELSE IF params.predator.max_speed <= 0 \/ params.prey.max_speed <= 0
    THEN "Agent speeds must be positive"
    ELSE IF params.simulation.tick_rate <= 0
    THEN "Tick rate must be positive"
    ELSE "Ok"

\* Parameters::validate: the reason of the first violated constraint, or "Ok"
Validate(params) ==
    IF params.world.width <= 0 \/ params.world.height <= 0
    THEN "World dimensions must be positive"
    ELSE IF params.predator.max_speed <= 0 \/ params.prey.max_speed <= 0
    THEN "Agent speeds must be positive"
    ELSE IF params.predator.initial_energy <= 0 \/ params.prey.initial_energy <= 0
    THEN "Initial energy must be positive"
    ELSE IF params.simulation.tick_rate <= 0
    THEN "Tick rate must be positive"
    ELSE "Ok"

\* the configurations handed to World::new and update_parameters; neither
\* calls validate()
ParameterChoices ==
    {DefaultParameters, WallsParameters, CrowdedParameters, NarrowParameters,
     HarshParameters, DrainingParameters, RetunedParameters, FertileParameters,
     UnvalidatedParameters}

(* ------------------------------------------------------------------ *)
(* Random draws (rand::thread_rng), from small sets                    *)
(* ------------------------------------------------------------------ *)
\* rng.gen_range(0.0..width) x rng.gen_range(0.0..height)
SpawnPoints(params) ==
    {p \in {<<1, 12>>, <<56, 12>>} :
        /\ 0 <= p[1] /\ p[1] < params.world.width
        /\ 0 <= p[2] /\ p[2] < params.world.height}

\* rng.gen::<f64>() * 2 pi, in degrees
Angles == {0, 270}

\* rng.gen::<f64>() * 20.0: the length of a spawn offset, below ReproduceRadius
ReproduceRadius == 20

Radii == {r \in {15} : 0 <= r /\ r < ReproduceRadius}

\* margin that a spawn point keeps from the world's edges
ReproduceMargin == 10

\* from_angle: (cos(angle) * magnitude, sin(angle) * magnitude)
FromAngle(angle, magnitude) ==
    IF angle = 0 THEN <<magnitude, 0>> ELSE <<0, -magnitude>>

\* what one agent draws in one tick: angle and radius of the spawn offset, and
\* the angle of a flee from a coincident threat
DefaultDraw == [angle |-> 0, radius |-> 15, flee_angle |-> 0]

(* ------------------------------------------------------------------ *)
(* simulation/agent.rs                                                 *)
(* ------------------------------------------------------------------ *)
ActionNone == [type |-> "None", target_id |-> 0, position |-> Zero, energy |-> 0]

ActionConsumed(target_id) ==
    [type |-> "Consumed", target_id |-> target_id, position |-> Zero, energy |-> 0]

ActionReproduce(position, energy) ==
    [type |-> "Reproduce", target_id |-> 0, position |-> position, energy |-> energy]

\* BaseAgent::new, with the species parameters the agent keeps
NewAgent(id, agent_type, position, params) ==
    [id |-> id, agent_type |-> agent_type, position |-> position,
     velocity |-> Zero, energy |-> params.initial_energy, age |-> 0,
     max_speed |-> params.max_speed, params |-> params]

UpdatePosition(self, world_state) ==
    LET new_position == Add(self.position, Scale(self.velocity, world_state.dt, 1))
    IN [self EXCEPT !.position =
            IF world_state.boundary_type = "Wraparound"
            THEN WrapPosition(new_position, world_state.width, world_state.height)
            ELSE ClampPosition(new_position, world_state.width, world_state.height)]

SetVelocity(self, velocity) ==
    [self EXCEPT !.velocity = Limit(velocity, self.max_speed)]

\* mutant: the energy is kept at or above zero by taking the absolute value
ConsumeEnergyAbsolute(self, amount) ==
    [self EXCEPT !.energy = Abs(self.energy - amount)]

ConsumeEnergy(self, amount) ==
    [self EXCEPT !.energy = Max(self.energy - amount, 0)]

AddEnergy(self, amount) == [self EXCEPT !.energy = self.energy + amount]

IncrementAge(self) == [self EXCEPT !.age = self.age + 1]

\* mutant: an agent with no energy left still counts as alive
CheckAliveAtZero(self) == self.energy >= 0

CheckAlive(self) == self.energy > 0

\* mutant: the first entry is taken instead of the nearest
NearestIndexFirst(entries) == IF entries = <<>> THEN 0 ELSE 1

\* Iterator::min_by on the distance: the first entry of least distance, 0 if none
NearestIndex(entries) ==
    IF entries = <<>> THEN 0
    ELSE CHOOSE i \in 1..Len(entries) :
             /\ \A j \in 1..Len(entries) : entries[i].dist2 <= entries[j].dist2
             /\ \A j \in 1..(i - 1) : entries[j].dist2 > entries[i].dist2

\* the spawn point of a Reproduce action: parent position plus the random
\* offset, clamped into [10, width - 10] x [10, height - 10]
SpawnPosition(self, world_state, draw) ==
    LET spawn_pos == Add(self.position, FromAngle(draw.angle, draw.radius))
    IN <<Min(Max(spawn_pos[1], ReproduceMargin), world_state.width - ReproduceMargin),
         Min(Max(spawn_pos[2], ReproduceMargin), world_state.height - ReproduceMargin)>>

(* ------------------------------------------------------------------ *)
(* simulation/predator.rs                                              *)
(* ------------------------------------------------------------------ *)
NewPredator(id, position, params) == NewAgent(id, "Predator", position, params)

Seek(self, target) ==
    LET desired == Subtract(target, self.position)
    IN IF MagnitudeSquared(desired) > 0
       THEN NormalizeScale(desired, self.max_speed)
       ELSE Zero

\* mutant: after the capture the reproduction check still runs
CaptureThenReproduce(self, fed, target_id) ==
    LET gained == AddEnergy(fed, self.params.energy_gain_from_prey)
        paid == ConsumeEnergy(gained, self.params.reproduction_cost)
    IN IF gained.energy >= self.params.reproduction_threshold
       THEN [agent |-> paid, action |-> ActionConsumed(target_id),
             energies |-> <<fed.energy, gained.energy, paid.energy>>]
       ELSE [agent |-> gained, action |-> ActionConsumed(target_id),
             energies |-> <<fed.energy, gained.energy>>]

\* the capture branch of Predator::update: add the gain and return Consumed
\* at once
Capture(self, fed, target_id) ==
    LET gained == AddEnergy(fed, self.params.energy_gain_from_prey)
    IN [agent |-> gained, action |-> ActionConsumed(target_id),
        energies |-> <<fed.energy, gained.energy>>]

\* Predator::update: the agent afterwards, the action returned, and the
\* energy after each mutation in order
PredatorUpdate(self, world_state, draw) ==
    LET fed == IncrementAge(ConsumeEnergy(self, self.params.energy_per_tick * world_state.dt))
        n == NearestIndex(world_state.nearby_prey)
        nearest == world_state.nearby_prey[n]
        capture == /\ n > 0
                   /\ nearest.dist2 <= self.params.capture_distance * self.params.capture_distance
        steered == IF n > 0 THEN SetVelocity(fed, Seek(fed, nearest.position))
                   ELSE SetVelocity(fed, Scale(fed.velocity, 95, 100))
        paid == ConsumeEnergy(steered, self.params.reproduction_cost)
    IN IF ~CheckAlive(fed)
       THEN [agent |-> fed, action |-> ActionNone, energies |-> <<fed.energy>>]
       ELSE IF capture
       THEN Capture(self, fed, nearest.id)
       ELSE IF steered.energy >= self.params.reproduction_threshold
       THEN [agent |-> paid,
             action |-> ActionReproduce(SpawnPosition(steered, world_state, draw),
                                        self.params.initial_energy),
             energies |-> <<fed.energy, paid.energy>>]
       ELSE [agent |-> UpdatePosition(steered, world_state), action |-> ActionNone,
             energies |-> <<fed.energy>>]

(* ------------------------------------------------------------------ *)
(* simulation/prey.rs                                                  *)
(* ------------------------------------------------------------------ *)
NewPrey(id, position, params) == NewAgent(id, "Prey", position, params)

\* mutant: no random direction for a threat on the prey's own point
FleeDegenerate(self, threat, draw) ==
    NormalizeScale(Subtract(self.position, threat), self.max_speed)

Flee(self, threat, draw) ==
    LET away == Subtract(self.position, threat)
    IN IF MagnitudeSquared(away) > 0
       THEN NormalizeScale(away, self.max_speed)
       ELSE FromAngle(draw.flee_angle, self.max_speed)

\* mutant: a prey that has a predator listed beyond flee_distance slows down
\* by the same factor as one that has none listed
PreyUpdateOneDecay(self, world_state, draw) ==
    LET fed == IncrementAge(AddEnergy(self, self.params.energy_regeneration * world_state.dt))
        n == NearestIndex(world_state.nearby_predators)
        nearest == world_state.nearby_predators[n]
        flees == /\ n > 0
                 /\ nearest.dist2 <= self.params.flee_distance * self.params.flee_distance
        steered == IF flees
                   THEN ConsumeEnergy(SetVelocity(fed, Flee(fed, nearest.position, draw)),
                                      self.params.energy_loss_fleeing * world_state.dt)
                   ELSE SetVelocity(fed, Scale(fed.velocity, 95, 100))
        paid == ConsumeEnergy(steered, self.params.reproduction_cost)
        before == <<fed.energy>> \o (IF flees THEN <<steered.energy>> ELSE <<>>)
    IN IF ~CheckAlive(fed)
       THEN [agent |-> fed, action |-> ActionNone, energies |-> <<fed.energy>>]
       ELSE IF steered.energy >= self.params.reproduction_threshold
       THEN [agent |-> paid,
             action |-> ActionReproduce(SpawnPosition(steered, world_state, draw),
                                        self.params.initial_energy),
             energies |-> before \o <<paid.energy>>]
       ELSE [agent |-> UpdatePosition(steered, world_state), action |-> ActionNone,
             energies |-> before]

\* Prey::update: the agent afterwards, the action returned, and the energy
\* after each mutation in order
PreyUpdate(self, world_state, draw) ==
    LET fed == IncrementAge(AddEnergy(self, self.params.energy_regeneration * world_state.dt))
        n == NearestIndex(world_state.nearby_predators)
        nearest == world_state.nearby_predators[n]
        flees == /\ n > 0
                 /\ nearest.dist2 <= self.params.flee_distance * self.params.flee_distance
        steered == IF flees
                   THEN ConsumeEnergy(SetVelocity(fed, Flee(fed, nearest.position, draw)),
                                      self.params.energy_loss_fleeing * world_state.dt)
                   ELSE IF n > 0
                   THEN SetVelocity(fed, Scale(fed.velocity, 90, 100))
                   ELSE SetVelocity(fed, Scale(fed.velocity, 95, 100))
        paid == ConsumeEnergy(steered, self.params.reproduction_cost)
        before == <<fed.energy>> \o (IF flees THEN <<steered.energy>> ELSE <<>>)
    IN IF ~CheckAlive(fed)
       THEN [agent |-> fed, action |-> ActionNone, energies |-> <<fed.energy>>]
       ELSE IF steered.energy >= self.params.reproduction_threshold
       THEN [agent |-> paid,
             action |-> ActionReproduce(SpawnPosition(steered, world_state, draw),
                                        self.params.initial_energy),
             energies |-> before \o <<paid.energy>>]
       ELSE [agent |-> UpdatePosition(steered, world_state), action |-> ActionNone,
             energies |-> before]

(* ------------------------------------------------------------------ *)
(* simulation/world.rs                                                 *)
(* ------------------------------------------------------------------ *)
VARIABLES
    predators,   \* World.predators: Vec<Predator>, in insertion order
    prey,        \* World.prey: Vec<Prey>, in insertion order
    params,      \* World.params
    next_id,     \* World.next_id
    issued,      \* the ids given to agents since World::new or the last reset()
    last,        \* the operation that produced this state, and what it did
    ticks,       \* update() calls so far
    ops          \* calls of the other operations so far

vars == <<predators, prey, params, next_id, issued, last, ticks, ops>>

Range(s) == {s[i] : i \in 1..Len(s)}

Ids(agents) == {agents[i].id : i \in 1..Len(agents)}

\* the sequences of n positions drawn by n successive gen_range pairs
RECURSIVE PositionDraws(_, _)
PositionDraws(n, points) ==
    IF n = 0 THEN {<<>>}
    ELSE {Append(s, p) : s \in PositionDraws(n - 1, points), p \in points}

\* the record an operation leaves in `last`: the call, its argument, the ids
\* it issued and the value it returned
Done(op, arg, new_ids, returned) ==
    [op |-> op, arg |-> arg, new_ids |-> new_ids, returned |-> returned,
     world_state |-> <<>>, before |-> <<>>, decided |-> <<>>,
     committed |-> <<>>, culled |-> <<>>]

\* mutant: each species counts its ids from first_id
InitializeAgentsPerSpecies(p, first_id, predator_positions, prey_positions) ==
    LET np == Len(predator_positions)
        nq == Len(prey_positions)
    IN [predators |-> [i \in 1..np |->
                          NewPredator(first_id + i - 1, predator_positions[i], p.predator)],
        prey |-> [i \in 1..nq |->
                     NewPrey(first_id + i - 1, prey_positions[i], p.prey)],
        next_id |-> first_id + np + nq]

\* World::initialize_agents: predators first, then prey, ids from next_id on
InitializeAgents(p, first_id, predator_positions, prey_positions) ==
    LET np == Len(predator_positions)
        nq == Len(prey_positions)
    IN [predators |-> [i \in 1..np |->
                          NewPredator(first_id + i - 1, predator_positions[i], p.predator)],
        prey |-> [i \in 1..nq |->
                     NewPrey(first_id + np + i - 1, prey_positions[i], p.prey)],
        next_id |-> first_id + np + nq]

\* World::new
Init ==
    \E p \in ParameterChoices :
    \E pp \in PositionDraws(p.predator.initial_count, SpawnPoints(p)) :
    \E qp \in PositionDraws(p.prey.initial_count, SpawnPoints(p)) :
        LET w == InitializeAgents(p, 1, pp, qp)
        IN /\ predators = w.predators
           /\ prey = w.prey
           /\ params = p
           /\ next_id = w.next_id
           /\ issued = Ids(w.predators) \cup Ids(w.prey)
           /\ last = Done("new", p, Ids(w.predators) \cup Ids(w.prey), 0)
           /\ ticks = 0
           /\ ops = 0

\* mutant: the radius is the one the predator captured at its creation
PerceptionRadiusCaptured(p, predator) == predator.params.perception_radius

\* the radius that admits a prey to the nearby-prey list:
\* self.params.predator.perception_radius, whichever predator the pair is of
PerceptionRadius(p, predator) == p.predator.perception_radius

\* World::build_world_state: both nearby lists are built over all pairs
BuildWorldState(preds, preys, p) ==
    LET np == Len(preds)
        nq == Len(preys)
        width == p.world.width
        height == p.world.height
        radius == Max(p.predator.perception_radius, p.prey.detection_radius)
        \* for prey in &self.prey { for predator in &self.predators { .. } }
        predator_entries ==
            [k \in 1..(nq * np) |->
                LET a == preys[((k - 1) \div np) + 1]
                    b == preds[((k - 1) % np) + 1]
                IN [id |-> b.id, position |-> b.position,
                    dist2 |-> DistanceTorus2(a.position, b.position, width, height)]]
        \* for predator in &self.predators { for prey in &self.prey { .. } }
        prey_pairs ==
            [k \in 1..(np * nq) |->
                LET a == preds[((k - 1) \div nq) + 1]
                    b == preys[((k - 1) % nq) + 1]
                IN [predator |-> a, id |-> b.id, position |-> b.position,
                    dist2 |-> DistanceTorus2(a.position, b.position, width, height)]]
        seen_prey ==
            SelectSeq(prey_pairs,
                      LAMBDA e : e.dist2 <= PerceptionRadius(p, e.predator)
                                            * PerceptionRadius(p, e.predator))
    IN [width |-> width,
        height |-> height,
        boundary_type |-> p.world.boundary_type,
        nearby_predators |->
            SelectSeq(predator_entries, LAMBDA e : e.dist2 <= radius * radius),
        nearby_prey |->
            [k \in 1..Len(seen_prey) |->
                [id |-> seen_prey[k].id, position |-> seen_prey[k].position,
                 dist2 |-> seen_prey[k].dist2]],
        dt |-> p.simulation.dt]

\* the random numbers an agent's update can draw: a spawn offset only when it
\* reproduces, a flee angle only when it flees from a coincident threat
ReproduceDraws == [angle : Angles, radius : Radii, flee_angle : {DefaultDraw.flee_angle}]

PredatorDraws(self, world_state) ==
    IF PredatorUpdate(self, world_state, DefaultDraw).action.type = "Reproduce"
    THEN ReproduceDraws
    ELSE {DefaultDraw}

PreyDraws(self, world_state) ==
    LET n == NearestIndex(world_state.nearby_predators)
        coincident ==
            /\ n > 0
            /\ world_state.nearby_predators[n].position = self.position
            /\ world_state.nearby_predators[n].dist2
                   <= self.params.flee_distance * self.params.flee_distance
        reproduces == PreyUpdate(self, world_state, DefaultDraw).action.type = "Reproduce"
    IN {d \in [angle : Angles, radius : Radii, flee_angle : Angles] :
           /\ ~reproduces => d.angle = DefaultDraw.angle /\ d.radius = DefaultDraw.radius
           /\ ~coincident => d.flee_angle = DefaultDraw.flee_angle}

RECURSIVE PredatorDrawSeqs(_, _, _)
PredatorDrawSeqs(preds, n, world_state) ==
    IF n = 0 THEN {<<>>}
    ELSE {Append(s, d) : s \in PredatorDrawSeqs(preds, n - 1, world_state),
                         d \in PredatorDraws(preds[n], world_state)}

RECURSIVE PreyDrawSeqs(_, _, _)
PreyDrawSeqs(preys, n, world_state) ==
    IF n = 0 THEN {<<>>}
    ELSE {Append(s, d) : s \in PreyDrawSeqs(preys, n - 1, world_state),
                         d \in PreyDraws(preys[n], world_state)}

\* the order in which update() visits the agents: every predator, then every prey
ProcessingOrder(np, nq) ==
    [k \in 1..(np + nq) |->
        IF k <= np THEN [kind |-> "Predator", index |-> k]
        ELSE [kind |-> "Prey", index |-> k - np]]

\* mutant: sequential semantics, a prey that an earlier predator of this tick
\* has consumed is no longer offered to the agents after it
DecideStepSequential(st, who, world_state, draws) ==
    LET taken == {st.predator_actions[i].target_id :
                     i \in {j \in 1..Len(st.predator_actions) :
                               st.predator_actions[j].type = "Consumed"}}
        left == [world_state EXCEPT
                    !.nearby_prey = SelectSeq(@, LAMBDA e : e.id \notin taken)]
    IN IF who.kind = "Predator"
       THEN LET r == PredatorUpdate(st.predators[who.index], left,
                                    draws.predators[who.index])
            IN [st EXCEPT !.predators[who.index] = r.agent,
                          !.predator_actions[who.index] = r.action,
                          !.predator_energies[who.index] = r.energies]
       ELSE LET r == PreyUpdate(st.prey[who.index], left, draws.prey[who.index])
            IN [st EXCEPT !.prey[who.index] = r.agent,
                          !.prey_actions[who.index] = r.action,
                          !.prey_energies[who.index] = r.energies]

\* one iteration of the two loops of update(): agent `who` updates itself in
\* place against the snapshot built before the loops; its action is collected
DecideStep(st, who, world_state, draws) ==
    IF who.kind = "Predator"
    THEN LET r == PredatorUpdate(st.predators[who.index], world_state,
                                 draws.predators[who.index])
         IN [st EXCEPT !.predators[who.index] = r.agent,
                       !.predator_actions[who.index] = r.action,
                       !.predator_energies[who.index] = r.energies]
    ELSE LET r == PreyUpdate(st.prey[who.index], world_state, draws.prey[who.index])
         IN [st EXCEPT !.prey[who.index] = r.agent,
                       !.prey_actions[who.index] = r.action,
                       !.prey_energies[who.index] = r.energies]

\* the loops of update() from the k-th agent of `order` on; each iteration
\* works on the populations as the iteration before it left them
RECURSIVE DecideFrom(_, _, _, _, _)
DecideFrom(st, order, k, world_state, draws) ==
    IF k > Len(order) THEN st
    ELSE CHOOSE r \in {DecideFrom(s, order, k + 1, world_state, draws) :
                          s \in {DecideStep(st, order[k], world_state, draws)}} : TRUE

\* the decision phase of update(), visiting the agents in `order`
DecisionPhase(preds, preys, world_state, draws, order) ==
    DecideFrom([predators |-> preds, prey |-> preys,
                predator_actions |-> [i \in 1..Len(preds) |-> ActionNone],
                prey_actions |-> [i \in 1..Len(preys) |-> ActionNone],
                predator_energies |-> [i \in 1..Len(preds) |-> <<>>],
                prey_energies |-> [i \in 1..Len(preys) |-> <<>>]],
               order, 1, world_state, draws)

\* the indices of the Reproduce actions, in list order
Reproducing(actions) ==
    SelectSeq([i \in 1..Len(actions) |-> i], LAMBDA i : actions[i].type = "Reproduce")

\* the target ids of the Consumed actions, in list order
ConsumedPreyIds(actions) ==
    LET consuming == SelectSeq([i \in 1..Len(actions) |-> i],
                               LAMBDA i : actions[i].type = "Consumed")
    IN [j \in 1..Len(consuming) |-> actions[consuming[j]].target_id]

\* mutant: the retain keeps the consumed prey and drops the others
RemoveConsumedInverted(preys, consumed_prey_ids) ==
    SelectSeq(preys, LAMBDA q : q.id \in Range(consumed_prey_ids))

\* self.prey.retain(|p| !consumed_prey_ids.contains(&p.id()))
RemoveConsumed(preys, consumed_prey_ids) ==
    SelectSeq(preys, LAMBDA q : q.id \notin Range(consumed_prey_ids))

\* mutant: the flag is not consulted
ReproductionAlwaysEnabled(p) == TRUE

\* if self.params.simulation.enable_reproduction, in both Reproduce arms
ReproductionEnabled(p) == p.simulation.enable_reproduction

\* mutant: the agents created by the commit phase are aged by the tick they
\* were born in, as the agents that took a decision in it are
ProcessActionsAgingNewborns(preds, preys, predator_actions, prey_actions, p, first_id) ==
    LET consumed_prey_ids == ConsumedPreyIds(predator_actions)
        rp == IF ReproductionEnabled(p)
              THEN Reproducing(predator_actions) ELSE <<>>
        rq == IF ReproductionEnabled(p)
              THEN Reproducing(prey_actions) ELSE <<>>
        new_predators ==
            [j \in 1..Len(rp) |->
                IncrementAge(NewPredator(first_id + j - 1,
                                         predator_actions[rp[j]].position, p.predator))]
        new_prey ==
            [j \in 1..Len(rq) |->
                IncrementAge(NewPrey(first_id + Len(rp) + j - 1,
                                     prey_actions[rq[j]].position, p.prey))]
    IN [predators |-> preds \o new_predators,
        prey |-> RemoveConsumed(preys, consumed_prey_ids) \o new_prey,
        next_id |-> first_id + Len(rp) + Len(rq),
        consumed_prey_ids |-> consumed_prey_ids,
        new_ids |-> Ids(new_predators) \cup Ids(new_prey)]

\* mutant: the prey actions are processed before the predator actions, so the
\* prey offspring take the lower ids
ProcessActionsPreyFirst(preds, preys, predator_actions, prey_actions, p, first_id) ==
    LET consumed_prey_ids == ConsumedPreyIds(predator_actions)
        rp == IF ReproductionEnabled(p)
              THEN Reproducing(predator_actions) ELSE <<>>
        rq == IF ReproductionEnabled(p)
              THEN Reproducing(prey_actions) ELSE <<>>
        new_predators ==
            [j \in 1..Len(rp) |->
                NewPredator(first_id + Len(rq) + j - 1,
                            predator_actions[rp[j]].position, p.predator)]
        new_prey ==
            [j \in 1..Len(rq) |->
                NewPrey(first_id + j - 1, prey_actions[rq[j]].position, p.prey)]
    IN [predators |-> preds \o new_predators,
        prey |-> RemoveConsumed(preys, consumed_prey_ids) \o new_prey,
        next_id |-> first_id + Len(rp) + Len(rq),
        consumed_prey_ids |-> consumed_prey_ids,
        new_ids |-> Ids(new_predators) \cup Ids(new_prey)]

\* mutant: the offspring are put at the front of their population
ProcessActionsPrepending(preds, preys, predator_actions, prey_actions, p, first_id) ==
    LET consumed_prey_ids == ConsumedPreyIds(predator_actions)
        rp == IF ReproductionEnabled(p)
              THEN Reproducing(predator_actions) ELSE <<>>
        rq == IF ReproductionEnabled(p)
              THEN Reproducing(prey_actions) ELSE <<>>
        new_predators ==
            [j \in 1..Len(rp) |->
                NewPredator(first_id + j - 1, predator_actions[rp[j]].position, p.predator)]
        new_prey ==
            [j \in 1..Len(rq) |->
                NewPrey(first_id + Len(rp) + j - 1, prey_actions[rq[j]].position, p.prey)]
    IN [predators |-> new_predators \o preds,
        prey |-> new_prey \o RemoveConsumed(preys, consumed_prey_ids),
        next_id |-> first_id + Len(rp) + Len(rq),
        consumed_prey_ids |-> consumed_prey_ids,
        new_ids |-> Ids(new_predators) \cup Ids(new_prey)]

\* mutant: a Reproduce action of a prey creates a predator
ProcessActionsOneSpecies(preds, preys, predator_actions, prey_actions, p, first_id) ==
    LET consumed_prey_ids == ConsumedPreyIds(predator_actions)
        rp == IF ReproductionEnabled(p)
              THEN Reproducing(predator_actions) ELSE <<>>
        rq == IF ReproductionEnabled(p)
              THEN Reproducing(prey_actions) ELSE <<>>
        new_predators ==
            [j \in 1..(Len(rp) + Len(rq)) |->
                NewPredator(first_id + j - 1,
                            IF j <= Len(rp) THEN predator_actions[rp[j]].position
                            ELSE prey_actions[rq[j - Len(rp)]].position,
                            p.predator)]
    IN [predators |-> preds \o new_predators,
        prey |-> RemoveConsumed(preys, consumed_prey_ids),
        next_id |-> first_id + Len(rp) + Len(rq),
        consumed_prey_ids |-> consumed_prey_ids,
        new_ids |-> Ids(new_predators)]

\* World::process_actions
ProcessActions(preds, preys, predator_actions, prey_actions, p, first_id) ==
    LET consumed_prey_ids == ConsumedPreyIds(predator_actions)
        rp == IF ReproductionEnabled(p)
              THEN Reproducing(predator_actions) ELSE <<>>
        rq == IF ReproductionEnabled(p)
              THEN Reproducing(prey_actions) ELSE <<>>
        new_predators ==
            [j \in 1..Len(rp) |->
                NewPredator(first_id + j - 1, predator_actions[rp[j]].position, p.predator)]
        new_prey ==
            [j \in 1..Len(rq) |->
                NewPrey(first_id + Len(rp) + j - 1, prey_actions[rq[j]].position, p.prey)]
    IN [predators |-> preds \o new_predators,
        prey |-> RemoveConsumed(preys, consumed_prey_ids) \o new_prey,
        next_id |-> first_id + Len(rp) + Len(rq),
        consumed_prey_ids |-> consumed_prey_ids,
        new_ids |-> Ids(new_predators) \cup Ids(new_prey)]

\* mutant: only the predators are culled
RemoveDeadPredatorsOnly(w) == [w EXCEPT !.predators = SelectSeq(@, CheckAlive)]

\* retain(|p| p.is_alive()) on both populations
RemoveDead(w) ==
    [w EXCEPT !.predators = SelectSeq(@, CheckAlive),
              !.prey = SelectSeq(@, CheckAlive)]

\* mutant: the entries are taken from the back of the list
DrainFromBack(agents, n) == SubSeq(agents, 1, Len(agents) - n)

\* drain(0..n): the list without its first n entries
Drain(agents, n) == SubSeq(agents, n + 1, Len(agents))

\* mutant: one agent too few is removed
EnforceMaxAgentsOffByOne(w, p) ==
    LET total == Len(w.predators) + Len(w.prey)
        to_remove == total - p.simulation.max_agents - 1
        remove_prey == to_remove - Len(w.predators)
    IN IF total > p.simulation.max_agents
       THEN IF Len(w.predators) > to_remove
            THEN [w EXCEPT !.predators = Drain(@, to_remove)]
            ELSE [w EXCEPT !.predators = <<>>,
                           !.prey = IF Len(@) > remove_prey
                                    THEN Drain(@, remove_prey) ELSE <<>>]
       ELSE w

\* mutant: when the predators do not cover the overflow, the prey are cleared
\* as well
EnforceMaxAgentsClearing(w, p) ==
    LET total == Len(w.predators) + Len(w.prey)
        to_remove == total - p.simulation.max_agents
    IN IF total > p.simulation.max_agents
       THEN IF Len(w.predators) > to_remove
            THEN [w EXCEPT !.predators = Drain(@, to_remove)]
            ELSE [w EXCEPT !.predators = <<>>, !.prey = <<>>]
       ELSE w

\* World::enforce_max_agents
EnforceMaxAgents(w, p) ==
    LET total == Len(w.predators) + Len(w.prey)
        to_remove == total - p.simulation.max_agents
        remove_prey == to_remove - Len(w.predators)
    IN IF total > p.simulation.max_agents
       THEN IF Len(w.predators) > to_remove
            THEN [w EXCEPT !.predators = Drain(@, to_remove)]
            ELSE [w EXCEPT !.predators = <<>>,
                           !.prey = IF Len(@) > remove_prey
                                    THEN Drain(@, remove_prey) ELSE <<>>]
       ELSE w

\* World::update: one tick
Update ==
    /\ ticks < MaxTicks
    /\ \E world_state \in {BuildWorldState(predators, prey, params)} :
       \E pd \in PredatorDrawSeqs(predators, Len(predators), world_state) :
       \E qd \in PreyDrawSeqs(prey, Len(prey), world_state) :
       \E decided \in {DecisionPhase(predators, prey, world_state,
                                     [predators |-> pd, prey |-> qd],
                                     ProcessingOrder(Len(predators), Len(prey)))} :
       \E committed \in {ProcessActions(decided.predators, decided.prey,
                                        decided.predator_actions,
                                        decided.prey_actions, params, next_id)} :
       \E culled \in {RemoveDead(committed)} :
       \E w \in {EnforceMaxAgents(culled, params)} :
          /\ predators' = w.predators
          /\ prey' = w.prey
          /\ next_id' = w.next_id
          /\ issued' = issued \cup committed.new_ids
          /\ last' = [op |-> "update",
                      arg |-> 0,
                      new_ids |-> committed.new_ids,
                      returned |-> 0,
                      world_state |-> world_state,
                      before |-> [predators |-> predators, prey |-> prey,
                                  next_id |-> next_id,
                                  draws |-> [predators |-> pd, prey |-> qd]],
                      decided |-> decided,
                      committed |-> committed,
                      culled |-> culled]
    /\ ticks' = ticks + 1
    /\ UNCHANGED <<params, ops>>

\* mutant: the new species parameters are pushed into the living agents
UpdateParametersRetroactive ==
    /\ ops < MaxOps
    /\ \E p \in ParameterChoices :
          /\ params' = p
          /\ predators' = [i \in 1..Len(predators) |->
                              [predators[i] EXCEPT !.params = p.predator,
                                                   !.max_speed = p.predator.max_speed]]
          /\ prey' = [i \in 1..Len(prey) |->
                         [prey[i] EXCEPT !.params = p.prey,
                                         !.max_speed = p.prey.max_speed]]
          /\ last' = Done("update_parameters", p, {}, 0)
    /\ ops' = ops + 1
    /\ UNCHANGED <<next_id, issued, ticks>>

\* World::update_parameters
UpdateParameters ==
    /\ ops < MaxOps
    /\ \E p \in ParameterChoices :
          /\ params' = p
          /\ last' = Done("update_parameters", p, {}, 0)
    /\ ops' = ops + 1
    /\ UNCHANGED <<predators, prey, next_id, issued, ticks>>

\* mutant: the populations are not cleared before they are seeded again
ResetWithoutClear ==
    /\ ops < MaxOps
    /\ \E pp \in PositionDraws(params.predator.initial_count, SpawnPoints(params)) :
       \E qp \in PositionDraws(params.prey.initial_count, SpawnPoints(params)) :
          LET w == InitializeAgents(params, 1, pp, qp)
          IN /\ predators' = predators \o w.predators
             /\ prey' = prey \o w.prey
             /\ next_id' = w.next_id
             /\ issued' = Ids(w.predators) \cup Ids(w.prey)
             /\ last' = Done("reset", 0, Ids(w.predators) \cup Ids(w.prey), 0)
    /\ ops' = ops + 1
    /\ UNCHANGED <<params, ticks>>

\* World::reset
Reset ==
    /\ ops < MaxOps
    /\ \E pp \in PositionDraws(params.predator.initial_count, SpawnPoints(params)) :
       \E qp \in PositionDraws(params.prey.initial_count, SpawnPoints(params)) :
          LET w == InitializeAgents(params, 1, pp, qp)
          IN /\ predators' = w.predators
             /\ prey' = w.prey
             /\ next_id' = w.next_id
             /\ issued' = Ids(w.predators) \cup Ids(w.prey)
             /\ last' = Done("reset", 0, Ids(w.predators) \cup Ids(w.prey), 0)
    /\ ops' = ops + 1
    /\ UNCHANGED <<params, ticks>>

\* mutant: a spawned agent's id is the population size plus one
RECURSIVE SpawnLoopCountingIds(_, _, _, _)
SpawnLoopCountingIds(w, kind, remaining, p) ==
    LET id == Len(w.predators) + Len(w.prey) + 1
    IN IF remaining = 0 \/ Len(w.predators) + Len(w.prey) >= p.simulation.max_agents
       THEN {w}
       ELSE UNION {SpawnLoopCountingIds(
                       IF kind = "Predator"
                       THEN [w EXCEPT !.predators = Append(@, NewPredator(id, pos, p.predator)),
                                      !.next_id = id + 1, !.spawned = @ + 1,
                                      !.new_ids = @ \cup {id}]
                       ELSE [w EXCEPT !.prey = Append(@, NewPrey(id, pos, p.prey)),
                                      !.next_id = id + 1, !.spawned = @ + 1,
                                      !.new_ids = @ \cup {id}],
                       kind, remaining - 1, p) : pos \in SpawnPoints(p)}

\* mutant: the ceiling is not looked at
RECURSIVE SpawnLoopUnchecked(_, _, _, _)
SpawnLoopUnchecked(w, kind, remaining, p) ==
    IF remaining = 0
    THEN {w}
    ELSE UNION {SpawnLoopUnchecked(
                    IF kind = "Predator"
                    THEN [w EXCEPT !.predators = Append(@, NewPredator(w.next_id, pos, p.predator)),
                                   !.next_id = @ + 1, !.spawned = @ + 1,
                                   !.new_ids = @ \cup {w.next_id}]
                    ELSE [w EXCEPT !.prey = Append(@, NewPrey(w.next_id, pos, p.prey)),
                                   !.next_id = @ + 1, !.spawned = @ + 1,
                                   !.new_ids = @ \cup {w.next_id}],
                    kind, remaining - 1, p) : pos \in SpawnPoints(p)}

\* the loop of spawn_predators / spawn_prey: the worlds it can end in, one
\* position drawn per agent added, stopping at the ceiling
RECURSIVE SpawnLoop(_, _, _, _)
SpawnLoop(w, kind, remaining, p) ==
    IF remaining = 0 \/ Len(w.predators) + Len(w.prey) >= p.simulation.max_agents
    THEN {w}
    ELSE UNION {SpawnLoop(
                    IF kind = "Predator"
                    THEN [w EXCEPT !.predators = Append(@, NewPredator(w.next_id, pos, p.predator)),
                                   !.next_id = @ + 1, !.spawned = @ + 1,
                                   !.new_ids = @ \cup {w.next_id}]
                    ELSE [w EXCEPT !.prey = Append(@, NewPrey(w.next_id, pos, p.prey)),
                                   !.next_id = @ + 1, !.spawned = @ + 1,
                                   !.new_ids = @ \cup {w.next_id}],
                    kind, remaining - 1, p) : pos \in SpawnPoints(p)}

Spawn(kind, op) ==
    /\ ops < MaxOps
    /\ \E count \in 0..MaxSpawn :
       \E w \in SpawnLoop([predators |-> predators, prey |-> prey,
                           next_id |-> next_id, spawned |-> 0, new_ids |-> {}],
                          kind, count, params) :
          /\ predators' = w.predators
          /\ prey' = w.prey
          /\ next_id' = w.next_id
          /\ issued' = issued \cup w.new_ids
          /\ last' = Done(op, count, w.new_ids, w.spawned)
    /\ ops' = ops + 1
    /\ UNCHANGED <<params, ticks>>

\* World::spawn_predators
SpawnPredators == Spawn("Predator", "spawn_predators")

\* World::spawn_prey
SpawnPrey == Spawn("Prey", "spawn_prey")

\* mutant: the allocator is set back, as reset() does
ClearAllResettingIds ==
    /\ ops < MaxOps
    /\ predators' = <<>>
    /\ prey' = <<>>
    /\ next_id' = 1
    /\ last' = Done("clear_all", 0, {}, 0)
    /\ ops' = ops + 1
    /\ UNCHANGED <<params, issued, ticks>>

\* World::clear_all
ClearAll ==
    /\ ops < MaxOps
    /\ predators' = <<>>
    /\ prey' = <<>>
    /\ last' = Done("clear_all", 0, {}, 0)
    /\ ops' = ops + 1
    /\ UNCHANGED <<params, next_id, issued, ticks>>

(* ------------------------------------------------------------------ *)
(* The places where an operation can fail (panic) instead of returning *)
(* ------------------------------------------------------------------ *)
\* a - b on usize: fails when the difference would be negative
UsizeSubFails(a, b) == a < b

\* Vec::drain(0..n): fails when n is beyond the length
DrainFails(agents, n) == n > Len(agents)

\* rng.gen_range(low..high): fails on an empty range
GenRangeFails(low, high) == ~(low < high)

\* min_by(|..| d1.partial_cmp(d2).unwrap()): fails when a distance in the
\* list is not a number
MinByFails(entries) == \E i \in 1..Len(entries) : entries[i].dist2 \notin Nat

\* mutant: the overflow is computed without asking whether there is one
EnforceMaxAgentsFailsUnguarded(w, p) ==
    LET total == Len(w.predators) + Len(w.prey)
        to_remove == total - p.simulation.max_agents
        remove_prey == to_remove - Len(w.predators)
    IN \/ UsizeSubFails(total, p.simulation.max_agents)
       \/ IF Len(w.predators) > to_remove
          THEN DrainFails(w.predators, to_remove)
          ELSE \/ UsizeSubFails(to_remove, Len(w.predators))
               \/ Len(w.prey) > remove_prey /\ DrainFails(w.prey, remove_prey)

\* World::enforce_max_agents reaches a failing subtraction or drain
EnforceMaxAgentsFails(w, p) ==
    LET total == Len(w.predators) + Len(w.prey)
        to_remove == total - p.simulation.max_agents
        remove_prey == to_remove - Len(w.predators)
    IN IF total > p.simulation.max_agents
       THEN \/ UsizeSubFails(total, p.simulation.max_agents)
            \/ IF Len(w.predators) > to_remove
               THEN DrainFails(w.predators, to_remove)
               ELSE \/ UsizeSubFails(to_remove, Len(w.predators))
                    \/ Len(w.prey) > remove_prey /\ DrainFails(w.prey, remove_prey)
       ELSE FALSE

\* World::update reaches a failure: an agent that is alive after its first
\* energy step searches its nearby list, and the tick ends in
\* enforce_max_agents on the culled populations
UpdateFails(preds, preys, world_state, culled, p) ==
    \/ \E i \in 1..Len(preds) :
          /\ CheckAlive(ConsumeEnergy(preds[i],
                                      preds[i].params.energy_per_tick * world_state.dt))
          /\ MinByFails(world_state.nearby_prey)
    \/ \E i \in 1..Len(preys) :
          /\ CheckAlive(AddEnergy(preys[i],
                                  preys[i].params.energy_regeneration * world_state.dt))
          /\ MinByFails(world_state.nearby_predators)
    \/ EnforceMaxAgentsFails(culled, p)

\* World::initialize_agents (World::new, reset) reaches a failing gen_range
InitializeAgentsFails(p) ==
    /\ p.predator.initial_count > 0 \/ p.prey.initial_count > 0
    /\ GenRangeFails(0, p.world.width) \/ GenRangeFails(0, p.world.height)

\* spawn_predators(count) / spawn_prey(count) on `total` agents reaches a
\* failing gen_range: only when the loop body runs past the ceiling test
SpawnFails(count, total, p) ==
    /\ count > 0
    /\ total < p.simulation.max_agents
    /\ GenRangeFails(0, p.world.width) \/ GenRangeFails(0, p.world.height)

Next ==
    \/ Update
    \/ UpdateParameters
    \/ Reset
    \/ SpawnPredators
    \/ SpawnPrey
    \/ ClearAll

Spec == Init /\ [][Next]_vars

(* ------------------------------------------------------------------ *)
(* Parameters::validate on its own: a Parameters value, then the call  *)
(* ------------------------------------------------------------------ *)
\* the values validate() is called on: every field it reads is good or bad
\* independently of the others
CandidateParameters ==
    {[DefaultParameters EXCEPT !.world.width = w, !.world.height = h,
                               !.predator.max_speed = ps, !.prey.max_speed = qs,
                               !.predator.initial_energy = pe, !.prey.initial_energy = qe,
                               !.simulation.tick_rate = t] :
        w \in {-1, 0, 60}, h \in {0, 60}, ps \in {0, 2}, qs \in {-1, 3},
        pe \in {0, 3}, qe \in {-2, 2}, t \in {0, 1}}

\* a Parameters value, held by no World
ValidateInit ==
    /\ params \in CandidateParameters
    /\ predators = <<>>
    /\ prey = <<>>
    /\ next_id = 1
    /\ issued = {}
    /\ last = Done("parameters", 0, {}, 0)
    /\ ticks = 0
    /\ ops = 0

\* params.validate(): takes &self, returns Ok or the reason
CallValidate ==
    /\ last.op # "validate"
    /\ last' = Done("validate", params, {}, Validate(params))
    /\ UNCHANGED <<predators, prey, params, next_id, issued, ticks, ops>>

ValidateSpec == ValidateInit /\ [][CallValidate]_vars

(* ------------------------------------------------------------------ *)
(* BaseAgent::set_velocity on its own: an agent, then calls with any   *)
(* vector                                                              *)
(* ------------------------------------------------------------------ *)
\* the max_speed values of the agents set_velocity is called on
AgentSpeeds == {1, 2, 3}

\* the vectors passed to set_velocity
Velocities == (-MaxComponent..MaxComponent) \X (-MaxComponent..MaxComponent)

\* BaseAgent::new: one agent, at rest, held by no World
AgentInit ==
    /\ \E speed \in AgentSpeeds :
          predators = <<NewPredator(1, <<1, 12>>,
                                    [DefaultPredatorParameters EXCEPT !.max_speed = speed])>>
    /\ prey = <<>>
    /\ params = DefaultParameters
    /\ next_id = 2
    /\ issued = {1}
    /\ last = Done("agent", 0, {1}, 0)
    /\ ticks = 0
    /\ ops = 0

\* agent.set_velocity(velocity)
CallSetVelocity ==
    /\ \E velocity \in Velocities :
          /\ predators' = [predators EXCEPT ![1] = SetVelocity(@, velocity)]
          /\ last' = Done("set_velocity", velocity, {}, 0)
    /\ UNCHANGED <<prey, params, next_id, issued, ticks, ops>>

AgentSpec == AgentInit /\ [][CallSetVelocity]_vars

(* ------------------------------------------------------------------ *)
(* wrap_position and clamp_position on their own: the dimensions of a  *)
(* world, then calls with any position                                 *)
(* ------------------------------------------------------------------ *)
\* width and height of the worlds the two functions are called for
Dimensions == {<<4, 3>>, <<5, 6>>}

\* the positions passed: up to three dimensions outside the world either way
Positions == (-MaxCoordinate..MaxCoordinate) \X (-MaxCoordinate..MaxCoordinate)

\* a width and a height, held by no World
BoundaryInit ==
    /\ \E d \in Dimensions :
          params = [DefaultParameters EXCEPT !.world.width = d[1], !.world.height = d[2]]
    /\ predators = <<>>
    /\ prey = <<>>
    /\ next_id = 1
    /\ issued = {}
    /\ last = Done("dimensions", 0, {}, 0)
    /\ ticks = 0
    /\ ops = 0

\* wrap_position(pos, width, height)
CallWrapPosition ==
    /\ \E pos \in Positions :
          last' = Done("wrap_position", pos, {},
                       WrapPosition(pos, params.world.width, params.world.height))
    /\ UNCHANGED <<predators, prey, params, next_id, issued, ticks, ops>>

\* clamp_position(pos, width, height)
CallClampPosition ==
    /\ \E pos \in Positions :
          last' = Done("clamp_position", pos, {},
                       ClampPosition(pos, params.world.width, params.world.height))
    /\ UNCHANGED <<predators, prey, params, next_id, issued, ticks, ops>>

BoundaryNext ==
    \/ CallWrapPosition
    \/ CallClampPosition

BoundarySpec == BoundaryInit /\ [][BoundaryNext]_vars

(* ------------------------------------------------------------------ *)
(* Prey::update on its own: a prey, then one call with any snapshot    *)
(* ------------------------------------------------------------------ *)
\* the species parameters of the prey update() is called on: fast enough
\* for the two decay factors to differ after truncation; regeneration that
\* leaves the prey alive or not; a fleeing cost that it survives or not
HeldPreyParameters ==
    {[DefaultPreyParameters EXCEPT !.max_speed = 40],
     [DefaultPreyParameters EXCEPT !.max_speed = 40, !.energy_regeneration = -3],
     [DefaultPreyParameters EXCEPT !.max_speed = 40, !.energy_loss_fleeing = 4]}

\* the velocities the prey has before the call, none longer than max_speed
HeldVelocities == {<<0, 0>>, <<20, 0>>, <<12, -16>>, <<-40, 0>>}

\* the energies the prey has before the call
HeldEnergies == {1, 3, 4}

\* the entries of nearby_predators: (id, position, distance).  The list is
\* the world's, shared by all prey, so the distance of an entry is not tied
\* to the position of the prey that reads it
ThreatEntries ==
    [id : {7}, position : {<<1, 12>>, <<5, 12>>, <<4, 8>>}, dist2 : {0, 16, 17}]

\* nearby_predators: empty, one entry, two entries
ThreatLists ==
    {<<>>} \cup {<<e>> : e \in ThreatEntries}
           \cup {<<e, f>> : e \in ThreatEntries, f \in ThreatEntries}

\* the worlds whose dimensions, dt and boundary the snapshot carries: the
\* default one, and one that is narrower and lower than twice the margin of a
\* spawn point, which validate() accepts
HeldWorlds ==
    {DefaultParameters,
     [DefaultParameters EXCEPT !.world.width = 15, !.world.height = 8]}

\* the positions of the prey before the call, inside the world
HeldPositions(p) ==
    {position \in {<<1, 12>>, <<56, 12>>, <<3, 5>>} :
        /\ 0 <= position[1] /\ position[1] < p.world.width
        /\ 0 <= position[2] /\ position[2] < p.world.height}

\* Prey::new, then the fields as earlier ticks can have left them; held by no
\* World
PreyInit ==
    /\ params \in HeldWorlds
    /\ \E q \in HeldPreyParameters, position \in HeldPositions(params),
          velocity \in HeldVelocities, energy \in HeldEnergies :
          prey = <<[NewPrey(1, position, q) EXCEPT !.velocity = velocity,
                                                   !.energy = energy]>>
    /\ predators = <<>>
    /\ next_id = 2
    /\ issued = {1}
    /\ last = Done("prey", 0, {1}, 0)
    /\ ticks = 0
    /\ ops = 0

\* prey.update(&world_state), once
CallPreyUpdate ==
    /\ last.op = "prey"
    /\ \E boundary_type \in {"Wraparound", "Walls"}, threats \in ThreatLists :
       \E world_state \in {[width |-> params.world.width,
                            height |-> params.world.height,
                            boundary_type |-> boundary_type,
                            nearby_predators |-> threats,
                            nearby_prey |-> <<>>,
                            dt |-> params.simulation.dt]} :
       \E draw \in PreyDraws(prey[1], world_state) :
       \E r \in {PreyUpdate(prey[1], world_state, draw)} :
          /\ prey' = <<r.agent>>
          /\ last' = [op |-> "prey_update",
                      arg |-> draw,
                      new_ids |-> {},
                      returned |-> r.action,
                      world_state |-> world_state,
                      before |-> [predators |-> <<>>, prey |-> prey,
                                  next_id |-> next_id,
                                  draws |-> [predators |-> <<>>, prey |-> <<draw>>]],
                      decided |-> [predators |-> <<>>, prey |-> <<r.agent>>,
                                   predator_actions |-> <<>>,
                                   prey_actions |-> <<r.action>>,
                                   predator_energies |-> <<>>,
                                   prey_energies |-> <<r.energies>>],
                      committed |-> <<>>,
                      culled |-> <<>>]
    /\ UNCHANGED <<predators, params, next_id, issued, ticks, ops>>

PreySpec == PreyInit /\ [][CallPreyUpdate]_vars

(* ------------------------------------------------------------------ *)
(* Properties                                                          *)
(* ------------------------------------------------------------------ *)
AllAgents == Range(predators) \cup Range(prey)

Ticked == last.op = "update"

InsideWorld(position, p) ==
    /\ 0 <= position[1] /\ position[1] <= p.world.width
    /\ 0 <= position[2] /\ position[2] <= p.world.height

Reverse(s) == [k \in 1..Len(s) |-> s[Len(s) + 1 - k]]

\* C1: immediately after update() the total number of agents is at most
\* max_agents, whatever the population was before the tick
C1_TotalWithinMaxAfterUpdate ==
    Ticked => Len(predators) + Len(prey) <= params.simulation.max_agents

\* a tick with births whose survivors exceeded the ceiling before enforcement
C1_Witness ==
    /\ Ticked
    /\ last.new_ids # {}
    /\ Len(last.culled.predators) + Len(last.culled.prey) > params.simulation.max_agents

\* C2: no two agents share an id, within a population or across the two
C2_IdsUnique ==
    /\ \A i, j \in 1..Len(predators) : predators[i].id = predators[j].id => i = j
    /\ \A i, j \in 1..Len(prey) : prey[i].id = prey[j].id => i = j
    /\ Ids(predators) \cap Ids(prey) = {}

\* a tick has added agents to a world that holds both species
C2_Witness ==
    /\ Ticked
    /\ last.new_ids \cap (Ids(predators) \cup Ids(prey)) # {}
    /\ predators # <<>>
    /\ prey # <<>>

\* C3 as stated: every id an operation issues is greater than every id issued
\* before it, over any sequence of operations, reset() included
C3_IdsNeverReused ==
    [][\A i \in last'.new_ids : \A j \in issued : i > j]_vars

\* C3 amended: every id issued by an operation other than reset() is greater
\* than every id issued since World::new or the last reset(); reset() issues
\* the ids from 1 on again
C3_IdsIncreaseBetweenResets ==
    [][/\ last'.op # "reset" => \A i \in last'.new_ids : \A j \in issued : i > j
       /\ last'.op = "reset" => last'.new_ids = 1..Cardinality(last'.new_ids)]_vars

\* ids are issued by a spawn after ticks in which agents were removed
C3_Witness ==
    /\ last.op \in {"spawn_predators", "spawn_prey"}
    /\ last.new_ids # {}
    /\ ticks > 0
    /\ Len(predators) + Len(prey) < Cardinality(issued)

\* C4: immediately after update() every agent of both populations has
\* energy > 0
C4_AliveAfterUpdate ==
    Ticked => \A a \in AllAgents : a.energy > 0

\* a tick in which a predator starved and a prey parent paid all it had
C4_Witness ==
    /\ Ticked
    /\ \E i \in 1..Len(last.decided.predators) : last.decided.predators[i].energy = 0
    /\ \E i \in 1..Len(last.decided.prey) :
          /\ last.decided.prey[i].energy = 0
          /\ last.decided.prey_actions[i].type = "Reproduce"

\* C5: no agent's energy is negative, in any state and after any energy
\* mutation inside a tick
C5_EnergyNeverNegative ==
    /\ \A a \in AllAgents : a.energy >= 0
    /\ Ticked =>
          /\ \A i \in 1..Len(last.decided.predators) :
                /\ last.decided.predators[i].energy >= 0
                /\ \A k \in 1..Len(last.decided.predator_energies[i]) :
                      last.decided.predator_energies[i][k] >= 0
          /\ \A i \in 1..Len(last.decided.prey) :
                /\ last.decided.prey[i].energy >= 0
                /\ \A k \in 1..Len(last.decided.prey_energies[i]) :
                      last.decided.prey_energies[i][k] >= 0

\* C6: after a tick every agent's position lies inside the world rectangle
\* [0, width] x [0, height] of the current parameters
C6_PositionsInsideWorld ==
    Ticked => \A a \in AllAgents : InsideWorld(a.position, params)

\* C7: a predator that returns Consumed(target) is within its own
\* capture_distance of the target prey at snapshot time
C7_ConsumedWithinCaptureDistance ==
    Ticked =>
        \A i \in 1..Len(last.before.predators) :
            last.decided.predator_actions[i].type = "Consumed" =>
                \E k \in 1..Len(last.before.prey) :
                    /\ last.before.prey[k].id = last.decided.predator_actions[i].target_id
                    /\ DistanceTorus2(last.before.predators[i].position,
                                      last.before.prey[k].position,
                                      last.world_state.width, last.world_state.height)
                           <= last.before.predators[i].params.capture_distance
                                  * last.before.predators[i].params.capture_distance

\* the i-th predator of the last tick had an entry within its capture
\* distance in the snapshot's nearby-prey list
PreyInRange(i) ==
    \E k \in 1..Len(last.world_state.nearby_prey) :
        last.world_state.nearby_prey[k].dist2
            <= last.before.predators[i].params.capture_distance
                   * last.before.predators[i].params.capture_distance

\* the i-th predator of the last tick returned Consumed for an entry of least
\* distance, and ended with its energy less the metabolic cost plus the gain
Captured(i) ==
    /\ last.decided.predator_actions[i].type = "Consumed"
    /\ \E k \in 1..Len(last.world_state.nearby_prey) :
          /\ last.world_state.nearby_prey[k].id
                 = last.decided.predator_actions[i].target_id
          /\ \A j \in 1..Len(last.world_state.nearby_prey) :
                last.world_state.nearby_prey[k].dist2
                    <= last.world_state.nearby_prey[j].dist2
    /\ last.decided.predators[i].energy
           = last.before.predators[i].energy
             - last.before.predators[i].params.energy_per_tick * last.world_state.dt
             + last.before.predators[i].params.energy_gain_from_prey

\* C8 as stated: a predator whose snapshot holds a prey within
\* capture_distance returns Consumed for the nearest entry and ends with
\* energy - energy_per_tick * dt + energy_gain_from_prey
C8_CaptureWhenPreyInRange ==
    Ticked => \A i \in 1..Len(last.before.predators) : PreyInRange(i) => Captured(i)

\* C8 amended: the same, for a predator that is still alive after paying the
\* metabolic cost (energy > energy_per_tick * dt)
C8_LiveCaptureWhenPreyInRange ==
    Ticked =>
        \A i \in 1..Len(last.before.predators) :
            (/\ PreyInRange(i)
             /\ last.before.predators[i].energy
                    > last.before.predators[i].params.energy_per_tick * last.world_state.dt)
            => Captured(i)

\* a live predator captured while a farther prey was in the snapshot too
C8_Witness ==
    /\ Ticked
    /\ \E i \in 1..Len(last.before.predators) :
          /\ PreyInRange(i)
          /\ last.decided.predator_actions[i].type = "Consumed"
    /\ \E j, k \in 1..Len(last.world_state.nearby_prey) :
          last.world_state.nearby_prey[j].dist2 < last.world_state.nearby_prey[k].dist2

\* C9: every agent's state and action after the decision phase are those of
\* its own update on its pre-tick state against the snapshot built before the
\* phase, and visiting the agents in the opposite order gives the same result
C9_SimultaneousUpdate ==
    Ticked =>
        /\ \A i \in 1..Len(last.before.predators) :
              LET r == PredatorUpdate(last.before.predators[i], last.world_state,
                                      last.before.draws.predators[i])
              IN /\ last.decided.predators[i] = r.agent
                 /\ last.decided.predator_actions[i] = r.action
        /\ \A i \in 1..Len(last.before.prey) :
              LET r == PreyUpdate(last.before.prey[i], last.world_state,
                                  last.before.draws.prey[i])
              IN /\ last.decided.prey[i] = r.agent
                 /\ last.decided.prey_actions[i] = r.action
        /\ DecisionPhase(last.before.predators, last.before.prey, last.world_state,
                         last.before.draws,
                         Reverse(ProcessingOrder(Len(last.before.predators),
                                                 Len(last.before.prey))))
               = last.decided

\* a tick in which two predators took the same prey and a prey decided too
C9_Witness ==
    /\ Ticked
    /\ \E i, j \in 1..Len(last.before.predators) :
          /\ i # j
          /\ last.decided.predator_actions[i].type = "Consumed"
          /\ last.decided.predator_actions[i] = last.decided.predator_actions[j]
    /\ Len(last.before.prey) >= 1

\* C10: after update() no prey targeted by a Consumed action of the tick is
\* in the prey population, and the commit phase removes no other prey
C10_ConsumedPreyRemoved ==
    Ticked =>
        LET targets == {last.decided.predator_actions[i].target_id :
                           i \in {j \in 1..Len(last.decided.predator_actions) :
                                     last.decided.predator_actions[j].type = "Consumed"}}
        IN /\ targets \cap Ids(prey) = {}
           /\ targets \cap Ids(last.committed.prey) = {}
           /\ Ids(last.decided.prey) \ targets \subseteq Ids(last.committed.prey)

\* a tick consumed one prey and left another in the population
C10_Witness ==
    /\ Ticked
    /\ \E i \in 1..Len(last.decided.predator_actions) :
          last.decided.predator_actions[i].type = "Consumed"
    /\ Ids(last.decided.prey) \cap Ids(prey) # {}

\* the agents of a committed population that were not in it before the tick
Born(committed, before) ==
    SelectSeq(committed, LAMBDA a : a.id \notin Ids(before))

\* the j-th agent of `born` is the one asked for by the j-th Reproduce action
\* of `actions`: a fresh id, the requested position and the requested energy
BornAsRequested(born, actions, agent_type, with_energy) ==
    LET asked == Reproducing(actions)
    IN /\ Len(born) = Len(asked)
       /\ \A j \in 1..Len(born) :
             /\ born[j].agent_type = agent_type
             /\ born[j].id >= last.before.next_id
             /\ \A k \in 1..Len(born) : born[k].id = born[j].id => k = j
             /\ born[j].position = actions[asked[j]].position
             /\ with_energy => born[j].energy = actions[asked[j]].energy

\* C11: while enable_reproduction is true, every committed Reproduce action
\* appends exactly one agent of the parent's species, with a fresh id, at the
\* requested position and with the requested energy
C11_ReproduceAsRequested ==
    (Ticked /\ params.simulation.enable_reproduction) =>
        /\ BornAsRequested(Born(last.committed.predators, last.before.predators),
                           last.decided.predator_actions, "Predator", TRUE)
        /\ BornAsRequested(Born(last.committed.prey, last.before.prey),
                           last.decided.prey_actions, "Prey", TRUE)

\* C12: while enable_reproduction is false, update() creates no agent: neither
\* population is larger after the tick than before it, and next_id is unchanged
C12_NoBirthsWhenDisabled ==
    (Ticked /\ ~params.simulation.enable_reproduction) =>
        /\ Len(predators) <= Len(last.before.predators)
        /\ Len(prey) <= Len(last.before.prey)
        /\ Ids(predators) \subseteq Ids(last.before.predators)
        /\ Ids(prey) \subseteq Ids(last.before.prey)
        /\ next_id = last.before.next_id

\* a tick with reproduction disabled in which an agent returned Reproduce
C12_Witness ==
    /\ Ticked
    /\ ~params.simulation.enable_reproduction
    /\ \/ \E i \in 1..Len(last.decided.predator_actions) :
             last.decided.predator_actions[i].type = "Reproduce"
       \/ \E i \in 1..Len(last.decided.prey_actions) :
             last.decided.prey_actions[i].type = "Reproduce"

\* squared distance, at the snapshot of the last tick, between the i-th
\* predator and the k-th prey of the populations before the tick
SnapshotDist2(i, k) ==
    DistanceTorus2(last.before.predators[i].position, last.before.prey[k].position,
                   last.world_state.width, last.world_state.height)

\* no operation changes the parameters a surviving agent captured at its
\* creation (reset() replaces the agents and issues their ids again)
CapturedParametersUnchanged ==
    last'.op # "reset" =>
        /\ \A i \in 1..Len(predators') : \A j \in 1..Len(predators) :
              predators'[i].id = predators[j].id =>
                  /\ predators'[i].params = predators[j].params
                  /\ predators'[i].max_speed = predators[j].max_speed
        /\ \A i \in 1..Len(prey') : \A j \in 1..Len(prey) :
              prey'[i].id = prey[j].id =>
                  /\ prey'[i].params = prey[j].params
                  /\ prey'[i].max_speed = prey[j].max_speed

\* in the last tick every agent decided by the values it captured: metabolic
\* cost or regeneration, capture distance, reproduction threshold and cost,
\* and the energy it asks for its offspring
DecidedByCapturedParameters ==
    /\ \A i \in 1..Len(last.before.predators) :
          LET a == last.before.predators[i]
              act == last.decided.predator_actions[i]
              e == last.decided.predator_energies[i]
          IN /\ last.decided.predators[i].params = a.params
             /\ e[1] = Max(a.energy - a.params.energy_per_tick * last.world_state.dt, 0)
             /\ act.type = "Consumed" =>
                   \E k \in 1..Len(last.world_state.nearby_prey) :
                       /\ last.world_state.nearby_prey[k].id = act.target_id
                       /\ last.world_state.nearby_prey[k].dist2
                              <= a.params.capture_distance * a.params.capture_distance
             /\ act.type = "Reproduce" =>
                   /\ e[1] >= a.params.reproduction_threshold
                   /\ e[2] = Max(e[1] - a.params.reproduction_cost, 0)
                   /\ act.energy = a.params.initial_energy
    /\ \A i \in 1..Len(last.before.prey) :
          LET a == last.before.prey[i]
              act == last.decided.prey_actions[i]
              e == last.decided.prey_energies[i]
          IN /\ last.decided.prey[i].params = a.params
             /\ e[1] = a.energy + a.params.energy_regeneration * last.world_state.dt
             /\ act.type = "Reproduce" =>
                   /\ e[Len(e) - 1] >= a.params.reproduction_threshold
                   /\ e[Len(e)] = Max(e[Len(e) - 1] - a.params.reproduction_cost, 0)
                   /\ act.energy = a.params.initial_energy

\* the snapshot of the last tick was built from the world's current
\* parameters: its world-level fields, and the perception radius that admits
\* a (predator, prey) pair to the nearby-prey list
SnapshotByCurrentParameters ==
    /\ last.world_state.width = params.world.width
    /\ last.world_state.height = params.world.height
    /\ last.world_state.boundary_type = params.world.boundary_type
    /\ last.world_state.dt = params.simulation.dt
    /\ \A k \in 1..Len(last.world_state.nearby_prey) :
          last.world_state.nearby_prey[k].dist2
              <= params.predator.perception_radius * params.predator.perception_radius
    /\ \A i \in 1..Len(last.before.predators) : \A k \in 1..Len(last.before.prey) :
          SnapshotDist2(i, k)
              <= params.predator.perception_radius * params.predator.perception_radius
          => \E j \in 1..Len(last.world_state.nearby_prey) :
                 /\ last.world_state.nearby_prey[j].id = last.before.prey[k].id
                 /\ last.world_state.nearby_prey[j].dist2 = SnapshotDist2(i, k)

\* the agents born in the last tick carry the world's current parameters
BornWithCurrentParameters ==
    /\ \A a \in Range(Born(last.committed.predators, last.before.predators)) :
          /\ a.params = params.predator
          /\ a.energy = params.predator.initial_energy
          /\ a.max_speed = params.predator.max_speed
    /\ \A a \in Range(Born(last.committed.prey, last.before.prey)) :
          /\ a.params = params.prey
          /\ a.energy = params.prey.initial_energy
          /\ a.max_speed = params.prey.max_speed

\* the nearby-prey list of the last tick holds, for every predator, the prey
\* within the perception radius that this predator captured at its creation,
\* and no entry beyond it
SnapshotByCapturedRadius ==
    \A i \in 1..Len(last.before.predators) :
        LET r2 == last.before.predators[i].params.perception_radius
                      * last.before.predators[i].params.perception_radius
        IN /\ \A k \in 1..Len(last.before.prey) :
                 SnapshotDist2(i, k) <= r2
                 => \E j \in 1..Len(last.world_state.nearby_prey) :
                        /\ last.world_state.nearby_prey[j].id = last.before.prey[k].id
                        /\ last.world_state.nearby_prey[j].dist2 = SnapshotDist2(i, k)
           /\ \A j \in 1..Len(last.world_state.nearby_prey) :
                 last.world_state.nearby_prey[j].dist2 <= r2

C14_UpdateParametersFrame ==
    [][last'.op = "update_parameters" =>
          /\ predators' = predators
          /\ prey' = prey
          /\ next_id' = next_id
          /\ params' = last'.arg]_vars

\* update_parameters replaced the configuration of a world whose agents have
\* lived through a tick and hold other parameters than the new ones
C14_Witness ==
    /\ last.op = "update_parameters"
    /\ \E a \in AllAgents :
          /\ a.age > 0
          /\ a.params # (IF a.agent_type = "Predator" THEN params.predator ELSE params.prey)

\* `after` is `before` without its first entries, the rest in unchanged order
IsSuffix(after, before) ==
    /\ Len(after) <= Len(before)
    /\ after = SubSeq(before, Len(before) - Len(after) + 1, Len(before))

\* C15: capacity enforcement removes from the front of the predator list
\* first; a prey is removed only when every predator was removed, and then
\* from the front of the prey list; the survivors of each species are a
\* suffix of the list after the cull; nothing is removed at or below the ceiling
C15_EvictionOrder ==
    Ticked =>
        /\ IsSuffix(predators, last.culled.predators)
        /\ IsSuffix(prey, last.culled.prey)
        /\ Len(prey) < Len(last.culled.prey) => predators = <<>>
        /\ Len(last.culled.predators) + Len(last.culled.prey) <= params.simulation.max_agents
           => /\ predators = last.culled.predators
              /\ prey = last.culled.prey

\* a tick whose enforcement removed every predator and the first prey, and
\* left a later prey in place
C15_Witness ==
    /\ Ticked
    /\ last.culled.predators # <<>>
    /\ predators = <<>>
    /\ prey # <<>>
    /\ Len(prey) < Len(last.culled.prey)

\* `after` is `before` followed by n more entries
GrewBy(after, before, n) ==
    /\ Len(after) = Len(before) + n
    /\ SubSeq(after, 1, Len(before)) = before

\* C16: spawn_predators(n) and spawn_prey(n) return the number of agents they
\* added, which is min(n, max(0, max_agents - total before the call)); the
\* other population is unchanged, and a total within the ceiling stays within it
C16_SpawnReturnsAdded ==
    [][last'.op \in {"spawn_predators", "spawn_prey"} =>
          LET total == Len(predators) + Len(prey)
              room == Max(0, params.simulation.max_agents - total)
          IN /\ last'.returned = Min(last'.arg, room)
             /\ last'.op = "spawn_predators" =>
                   /\ GrewBy(predators', predators, last'.returned)
                   /\ prey' = prey
             /\ last'.op = "spawn_prey" =>
                   /\ GrewBy(prey', prey, last'.returned)
                   /\ predators' = predators
             /\ total <= params.simulation.max_agents
                => Len(predators') + Len(prey') <= params.simulation.max_agents]_vars

\* a spawn that the ceiling cut short: some agents added, fewer than asked for
C16_Witness ==
    /\ last.op \in {"spawn_predators", "spawn_prey"}
    /\ 0 < last.returned
    /\ last.returned < last.arg

C18_ValidateFirstViolation ==
    last.op = "validate" =>
        LET dimensions == params.world.width <= 0 \/ params.world.height <= 0
            speeds == params.predator.max_speed <= 0 \/ params.prey.max_speed <= 0
            energies == params.predator.initial_energy <= 0
                            \/ params.prey.initial_energy <= 0
            rate == params.simulation.tick_rate <= 0
        IN /\ last.returned = "Ok" <=> ~(dimensions \/ speeds \/ energies \/ rate)
           /\ dimensions => last.returned = "World dimensions must be positive"
           /\ (~dimensions /\ speeds) => last.returned = "Agent speeds must be positive"
           /\ (~dimensions /\ ~speeds /\ energies)
              => last.returned = "Initial energy must be positive"
           /\ (~dimensions /\ ~speeds /\ ~energies /\ rate)
              => last.returned = "Tick rate must be positive"
           /\ params = last.arg

\* validate() was called on parameters that break the speed, the energy and
\* the tick-rate constraint at once
C18_Witness ==
    /\ last.op = "validate"
    /\ last.returned = "Agent speeds must be positive"
    /\ params.prey.initial_energy <= 0
    /\ params.simulation.tick_rate <= 0

\* C19: the parameters a World holds, set by World::new or update_parameters,
\* always satisfy validate(); an invalid configuration is never installed
C19_HeldParametersValid ==
    Validate(params) = "Ok"

\* where one position update takes an agent: position + velocity * dt, then
\* the boundary policy of the snapshot
Moved(position, velocity, world_state) ==
    IF world_state.boundary_type = "Wraparound"
    THEN WrapPosition(Add(position, Scale(velocity, world_state.dt, 1)),
                      world_state.width, world_state.height)
    ELSE ClampPosition(Add(position, Scale(velocity, world_state.dt, 1)),
                       world_state.width, world_state.height)

\* C20: a predator that is alive after paying its metabolic cost has exactly
\* one outcome in the tick: Consumed, with velocity and position untouched and
\* no reproduction cost paid whatever its energy; or Reproduce, with the
\* position untouched; or None, after one position update
C20_OneTerminalOutcome ==
    Ticked =>
        \A i \in 1..Len(last.before.predators) :
            LET a == last.before.predators[i]
                r == last.decided.predators[i]
                act == last.decided.predator_actions[i]
                e == last.decided.predator_energies[i]
            IN e[1] > 0 =>
                  /\ act.type \in {"Consumed", "Reproduce", "None"}
                  /\ act.type = "Consumed" =>
                        /\ r.velocity = a.velocity
                        /\ r.position = a.position
                        /\ r.energy = e[1] + a.params.energy_gain_from_prey
                  /\ act.type = "Reproduce" =>
                        /\ r.position = a.position
                        /\ r.energy = Max(e[1] - a.params.reproduction_cost, 0)
                  /\ act.type = "None" =>
                        /\ r.position = Moved(a.position, r.velocity, last.world_state)
                        /\ r.energy = e[1]

\* a tick in which a predator captured and ended with an energy at or above
\* its reproduction threshold
C20_Witness ==
    /\ Ticked
    /\ \E i \in 1..Len(last.before.predators) :
          /\ last.decided.predator_actions[i].type = "Consumed"
          /\ last.decided.predators[i].energy
                 >= last.before.predators[i].params.reproduction_threshold

\* the i-th predator of the last tick had no energy left after the metabolic
\* step
Starved(i) == last.decided.predator_energies[i][1] = 0

\* C21: when energy_per_tick * dt is at least the energy of every predator,
\* no predator is left after one update(); a predator whose energy reaches 0
\* at the metabolic step returns neither Consumed nor Reproduce, does not
\* move, and is in no population after the tick
C21_StarvedPredatorGone ==
    Ticked =>
        /\ (\A i \in 1..Len(last.before.predators) :
               last.before.predators[i].params.energy_per_tick * last.world_state.dt
                   >= last.before.predators[i].energy)
           => Len(predators) = 0
        /\ \A i \in 1..Len(last.before.predators) :
              Starved(i) =>
                  /\ last.decided.predator_actions[i] = ActionNone
                  /\ last.decided.predators[i].position = last.before.predators[i].position
                  /\ last.decided.predators[i].velocity = last.before.predators[i].velocity
                  /\ last.before.predators[i].id \notin Ids(last.culled.predators)
                  /\ last.before.predators[i].id \notin Ids(predators) \cup Ids(prey)

\* a tick in which every predator starved with a prey inside its capture
\* distance, and the commit phase removed no prey
C21_Witness ==
    /\ Ticked
    /\ last.before.predators # <<>>
    /\ \A i \in 1..Len(last.before.predators) : Starved(i) /\ PreyInRange(i)
    /\ predators = <<>>
    /\ last.before.prey # <<>>
    /\ Ids(last.before.prey) \subseteq Ids(last.committed.prey)

TorusGap(a, b, dim) ==
    IF Abs(a - b) <= dim - Abs(a - b) THEN Abs(a - b) ELSE dim - Abs(a - b)

\* squared toroidal distance, in the world of the last tick, between the i-th
\* predator and the k-th prey of the populations before the tick
PairDist2(i, k) ==
    TorusGap(last.before.predators[i].position[1], last.before.prey[k].position[1],
             params.world.width) ^ 2
    + TorusGap(last.before.predators[i].position[2], last.before.prey[k].position[2],
               params.world.height) ^ 2

\* the (predator, prey) pairs of the last tick within squared distance r2
PairsWithin(r2) ==
    {pair \in (1..Len(last.before.predators)) \X (1..Len(last.before.prey)) :
        PairDist2(pair[1], pair[2]) <= r2}

\* `entries` records exactly the pairs of `pairs`: one entry per pair, each
\* with the id and position of the agent `recorded` names and the pair's
\* distance, and no other entry
RecordsExactly(entries, pairs, recorded(_)) ==
    /\ Len(entries) = Cardinality(pairs)
    /\ \A pair \in pairs :
          \E j \in 1..Len(entries) :
              entries[j] = [id |-> recorded(pair).id, position |-> recorded(pair).position,
                            dist2 |-> PairDist2(pair[1], pair[2])]
    /\ \A j \in 1..Len(entries) :
          \E pair \in pairs :
              entries[j] = [id |-> recorded(pair).id, position |-> recorded(pair).position,
                            dist2 |-> PairDist2(pair[1], pair[2])]

\* C23: in the snapshot of a tick, a (predator, prey) pair at toroidal
\* distance d puts the prey into the nearby-prey list iff
\* d <= predator.perception_radius, and the predator into the
\* nearby-predator list iff d <= max(predator.perception_radius,
\* prey.detection_radius), the radii being those of the world's parameters;
\* the distance is the toroidal one under Wraparound and under Walls
C23_SnapshotRadiusFiltering ==
    Ticked =>
        /\ RecordsExactly(last.world_state.nearby_prey,
                          PairsWithin(params.predator.perception_radius ^ 2),
                          LAMBDA pair : last.before.prey[pair[2]])
        /\ RecordsExactly(last.world_state.nearby_predators,
                          PairsWithin(Max(params.predator.perception_radius,
                                          params.prey.detection_radius) ^ 2),
                          LAMBDA pair : last.before.predators[pair[1]])

\* a tick between walls whose snapshot recorded, in both lists, a pair that
\* is near only across the edge of the world, and left out no pair
C23_Witness ==
    /\ Ticked
    /\ params.world.boundary_type = "Walls"
    /\ \E pair \in PairsWithin(params.predator.perception_radius ^ 2) :
          MagnitudeSquared(Subtract(last.before.predators[pair[1]].position,
                                    last.before.prey[pair[2]].position))
              > params.prey.detection_radius ^ 2
    /\ last.world_state.nearby_prey # <<>>
    /\ last.world_state.nearby_predators # <<>>

\* the k-th prey of the last tick set a flee velocity and paid the fleeing
\* cost: its energy log holds the entry written after that payment
Fled(k) ==
    Len(last.decided.prey_energies[k])
        = (IF last.decided.prey_actions[k].type = "Reproduce" THEN 3 ELSE 2)

\* C24: a prey flees (flee velocity, energy_loss_fleeing * dt paid) only if
\* some predator is within flee_distance of that prey itself at snapshot
\* time, and a live prey with no predator within max(perception_radius,
\* detection_radius) of itself takes the no-predator branch: it does not flee
\* and its velocity is the old one scaled by 0.95
C24_PreyDecidesFromOwnDistances ==
    Ticked =>
        \A k \in 1..Len(last.before.prey) :
            LET a == last.before.prey[k]
                radius == Max(params.predator.perception_radius,
                              params.prey.detection_radius)
            IN /\ Fled(k) =>
                     \E i \in 1..Len(last.before.predators) :
                         PairDist2(i, k) <= a.params.flee_distance ^ 2
               /\ (/\ last.decided.prey_energies[k][1] > 0
                   /\ \A i \in 1..Len(last.before.predators) :
                         PairDist2(i, k) > radius ^ 2)
                  => /\ ~Fled(k)
                     /\ last.decided.prey[k].velocity
                            = Limit(Scale(a.velocity, 95, 100), a.max_speed)

\* v is within the speed limit of agent a
WithinMaxSpeed(v, a) == MagnitudeSquared(v) <= a.max_speed * a.max_speed

\* r is v shortened to length max, each component cut to a whole number: no
\* component changes its sign or grows, r is no longer than max, and one
\* unit more on each component would be
ShortenedTo(r, v, max) ==
    /\ \A c \in 1..2 : r[c] * v[c] >= 0 /\ Abs(r[c]) <= Abs(v[c])
    /\ MagnitudeSquared(r) <= max * max
    /\ MagnitudeSquared(<<Abs(r[1]) + 1, Abs(r[2]) + 1>>) > max * max

\* C25: set_velocity(v) stores v unchanged when |v| <= max_speed and
\* otherwise a vector of v's direction and of magnitude max_speed, so that
\* after any assignment, and in every state, no agent's velocity is longer
\* than its max_speed; in a tick of the world this holds for every velocity an
\* agent is left with by its update, whether or not it survives the tick
C25_VelocityWithinMaxSpeed ==
    /\ \A a \in AllAgents : WithinMaxSpeed(a.velocity, a)
    /\ Ticked =>
          \A a \in Range(last.decided.predators) \cup Range(last.decided.prey) :
              WithinMaxSpeed(a.velocity, a)
    /\ last.op = "set_velocity" =>
          LET a == predators[1]
          IN IF WithinMaxSpeed(last.arg, a)
             THEN a.velocity = last.arg
             ELSE ShortenedTo(a.velocity, last.arg, a.max_speed)

\* set_velocity was called with a vector longer than max_speed that points
\* along neither axis
C25_Witness ==
    /\ last.op = "set_velocity"
    /\ ~WithinMaxSpeed(last.arg, predators[1])
    /\ last.arg[1] # 0
    /\ last.arg[2] # 0
    /\ predators[1].velocity # Zero

\* the dimension of the world along axis c: 1 is x (width), 2 is y (height)
Dimension(c) == IF c = 1 THEN params.world.width ELSE params.world.height

SpawnedIdsAreNew ==
    \A kind \in {"Predator", "Prey"} : \A count \in 1..MaxSpawn :
        \A w \in SpawnLoop([predators |-> predators, prey |-> prey,
                            next_id |-> next_id, spawned |-> 0, new_ids |-> {}],
                           kind, count, params) :
            \A i \in w.new_ids : \A j \in issued : i > j

C28_ExactlyTheOverflowRemoved ==
    Ticked =>
        IF Len(last.culled.predators) + Len(last.culled.prey) > params.simulation.max_agents
        THEN Len(predators) + Len(prey) = params.simulation.max_agents
        ELSE /\ predators = last.culled.predators
             /\ prey = last.culled.prey

\* a tick whose survivors were two or more above the ceiling, so that the
\* enforcement took every predator and went on to the prey, and a prey was left
C28_Witness ==
    /\ Ticked
    /\ Len(last.culled.predators) + Len(last.culled.prey)
           >= params.simulation.max_agents + 2
    /\ Len(last.culled.predators) > 0
    /\ Len(prey) < Len(last.culled.prey)
    /\ Len(prey) > 0

\* the predators of the last tick that returned Consumed, which are those
\* that added energy_gain_from_prey to their energy
Credited == {i \in 1..Len(last.decided.predator_actions) :
                last.decided.predator_actions[i].type = "Consumed"}

\* C29: in one update() the number of predators that received
\* energy_gain_from_prey is at most the number of distinct prey that the
\* commit phase removed as captured: no two predators gain from the same prey
C29_OneCreditPerPrey ==
    Ticked =>
        /\ Cardinality(Credited)
               <= Cardinality(Ids(last.before.prey) \ Ids(last.committed.prey))
        /\ \A i, j \in Credited :
               last.decided.predator_actions[i].target_id
                   = last.decided.predator_actions[j].target_id
               => i = j

\* C30: a prey that is captured in a tick leaves no offspring from that tick:
\* the prey created in the commit phase are at most as many as the Reproduce
\* actions of the prey that were not consumed, and each of them is at the
\* position asked for by one of those
C30_NoOffspringOfCapturedPrey ==
    Ticked =>
        LET spared == {k \in 1..Len(last.before.prey) :
                          /\ last.decided.prey_actions[k].type = "Reproduce"
                          /\ last.before.prey[k].id
                                 \notin Range(last.committed.consumed_prey_ids)}
            born == Born(last.committed.prey, last.before.prey)
        IN /\ Len(born) <= Cardinality(spared)
           /\ \A j \in 1..Len(born) :
                 \E k \in spared :
                     born[j].position = last.decided.prey_actions[k].position

\* the agents of the last tick whose Reproduce action made the commit phase
\* create an offspring
ParentsOf(actions) ==
    {i \in 1..Len(actions) :
        actions[i].type = "Reproduce" /\ ReproductionEnabled(params)}

\* the agent is in the population, with energy left
AliveIn(agents, id) ==
    \E j \in 1..Len(agents) : agents[j].id = id /\ agents[j].energy > 0

\* C31: every agent whose Reproduce action created an offspring in the tick
\* is alive (energy > 0) and in its population after the tick's cull phase
C31_ParentsOutliveTheBirth ==
    Ticked =>
        /\ \A i \in ParentsOf(last.decided.predator_actions) :
               AliveIn(last.culled.predators, last.before.predators[i].id)
        /\ \A k \in ParentsOf(last.decided.prey_actions) :
               AliveIn(last.culled.prey, last.before.prey[k].id)

\* the spawn points asked for by the Reproduce actions among `actions`
RequestedPositions(actions) ==
    {actions[i].position : i \in Range(Reproducing(actions))}

\* C32: an agent created by an operation has age 0, zero velocity and the
\* initial energy of its parameters when the operation returns, and one
\* created in the commit phase of a tick is at the spawn point of a Reproduce
\* action of its species: the tick it was born in did not update it.  Every
\* other agent present after an operation was present before it, and is one
\* tick older after update() and as old as before after any other operation,
\* so that an agent's age is the number of update() calls since its creation
C32_NewbornsTakeNoDecision ==
    [][\A a \in Range(predators') \cup Range(prey') :
          IF a.id \in last'.new_ids
          THEN /\ a.age = 0
               /\ a.velocity = Zero
               /\ a.energy = a.params.initial_energy
               /\ last'.op = "update" =>
                     a.position \in
                         IF a.agent_type = "Predator"
                         THEN RequestedPositions(last'.decided.predator_actions)
                         ELSE RequestedPositions(last'.decided.prey_actions)
          ELSE \E b \in Range(predators) \cup Range(prey) :
                  /\ b.id = a.id
                  /\ b.agent_type = a.agent_type
                  /\ a.age = b.age + (IF last'.op = "update" THEN 1 ELSE 0)]_vars

\* after the second tick: an agent born in it, next to an agent that has been
\* there for both ticks and one that has been there for one
C32_Witness ==
    /\ Ticked
    /\ ticks = 2
    /\ \E a, b, c \in AllAgents :
          /\ a.id \in last.new_ids /\ a.age = 0
          /\ b.age = 2
          /\ c.age = 1

\* the indices, in list order, of the actions that ask for an offspring which
\* the commit phase creates
Granted(actions) ==
    IF params.simulation.enable_reproduction
    THEN SelectSeq([i \in 1..Len(actions) |-> i],
                   LAMBDA i : actions[i].type = "Reproduce")
    ELSE <<>>

\* `after` is `kept` followed by one agent per entry of `asked`, the j-th of
\* them with id first_id + j - 1 at the position of the action asked[j]
AppendedInOrder(after, kept, actions, asked, first_id) ==
    /\ Len(after) = Len(kept) + Len(asked)
    /\ SubSeq(after, 1, Len(kept)) = kept
    /\ \A j \in 1..Len(asked) :
          /\ after[Len(kept) + j].id = first_id + j - 1
          /\ after[Len(kept) + j].position = actions[asked[j]].position

\* C33: the commit phase is a function of the collected actions: the
\* offspring get consecutive ids from the pre-tick next_id on, the predator
\* offspring first and in the list order of their parents, then the prey
\* offspring in the list order of theirs; each population after the commit
\* is the population after the decision phase, the prey without those
\* consumed, followed by its offspring in that order
C33_CommitInListOrder ==
    Ticked =>
        LET rp == Granted(last.decided.predator_actions)
            rq == Granted(last.decided.prey_actions)
            targets == {last.decided.predator_actions[i].target_id :
                           i \in {j \in 1..Len(last.decided.predator_actions) :
                                     last.decided.predator_actions[j].type = "Consumed"}}
            kept == SelectSeq(last.decided.prey, LAMBDA q : q.id \notin targets)
        IN /\ AppendedInOrder(last.committed.predators, last.decided.predators,
                              last.decided.predator_actions, rp, last.before.next_id)
           /\ AppendedInOrder(last.committed.prey, kept,
                              last.decided.prey_actions, rq,
                              last.before.next_id + Len(rp))
           /\ last.committed.next_id = last.before.next_id + Len(rp) + Len(rq)

\* a tick in which two predators and a prey were given an offspring
C33_Witness ==
    /\ Ticked
    /\ Len(Granted(last.decided.predator_actions)) >= 2
    /\ Len(Granted(last.decided.prey_actions)) >= 1

\* the ids grow strictly along the list
IdsAscending(agents) ==
    \A i, j \in 1..Len(agents) : i < j => agents[i].id < agents[j].id

\* C34: in every state each population lists its agents by strictly
\* increasing id, so that the front of a population is its lowest id, and
\* next_id is greater than the id of every agent present; the agents that
\* capacity enforcement evicted in a tick had lower ids than those of their
\* species that it left
C34_IdsAscendingBelowNextId ==
    /\ IdsAscending(predators)
    /\ IdsAscending(prey)
    /\ \A a \in AllAgents : a.id < next_id
    /\ Ticked =>
          /\ \A e \in Ids(last.culled.predators) \ Ids(predators) :
                 \A a \in Range(predators) : e < a.id
          /\ \A e \in Ids(last.culled.prey) \ Ids(prey) :
                 \A a \in Range(prey) : e < a.id

\* after a tick that appended an offspring to a population of which capacity
\* enforcement then took the front: the population that is left has two or
\* more agents, the last of them born in this tick
C34_Witness ==
    /\ Ticked
    /\ \/ /\ Len(predators) >= 2
          /\ Len(predators) < Len(last.culled.predators)
          /\ predators[Len(predators)].id \in last.new_ids
       \/ /\ Len(prey) >= 2
          /\ Len(prey) < Len(last.culled.prey)
          /\ prey[Len(prey)].id \in last.new_ids

\* C35: extinction is absorbing under update(): a species that is empty
\* before an operation and not empty after it was refilled by a spawn of
\* that species or by reset(); update() leaves an empty species empty
C35_ExtinctionAbsorbing ==
    [][/\ (predators = <<>> /\ predators' # <<>>)
              => last'.op \in {"spawn_predators", "reset"}
       /\ (prey = <<>> /\ prey' # <<>>)
              => last'.op \in {"spawn_prey", "reset"}
       /\ last'.op = "update" =>
             /\ predators = <<>> => predators' = <<>>
             /\ prey = <<>> => prey' = <<>>]_vars

\* a tick that began with one species extinct and in which the other species
\* had offspring
C35_Witness ==
    /\ Ticked
    /\ last.new_ids # {}
    /\ \/ last.before.predators = <<>> /\ predators = <<>> /\ prey # <<>>
       \/ last.before.prey = <<>> /\ prey = <<>> /\ predators # <<>>

\* the sequence never goes up from `start` on
NeverRising(start, energies) ==
    /\ energies # <<>> => energies[1] <= start
    /\ \A k \in 1..(Len(energies) - 1) : energies[k + 1] <= energies[k]

\* C36: a predator's energy goes up in a tick only by a capture: with
\* energy_per_tick >= 0 and reproduction_cost >= 0, a predator that does not
\* return Consumed has, after each of its energy mutations and at the end of
\* the tick, at most the energy it had before; with no prey in the snapshot,
\* energy_per_tick * dt > 0 and energy > 0 before the tick, it ends the tick
\* with less
C36_EnergyRisesOnlyByCapture ==
    Ticked =>
        \A i \in 1..Len(last.before.predators) :
            LET was == last.before.predators[i]
                now == last.decided.predators[i]
            IN (was.params.energy_per_tick >= 0 /\ was.params.reproduction_cost >= 0) =>
                  /\ last.decided.predator_actions[i].type # "Consumed" =>
                        /\ now.energy <= was.energy
                        /\ NeverRising(was.energy, last.decided.predator_energies[i])
                  /\ (/\ last.world_state.nearby_prey = <<>>
                      /\ was.params.energy_per_tick * last.world_state.dt > 0
                      /\ was.energy > 0)
                     => now.energy < was.energy

\* a tick with no prey in the snapshot in which a predator that had captured
\* before paid its upkeep and the reproduction cost and is still alive
C36_Witness ==
    /\ Ticked
    /\ last.world_state.nearby_prey = <<>>
    /\ \E i \in 1..Len(last.before.predators) :
          /\ last.decided.predator_actions[i].type = "Reproduce"
          /\ last.decided.predators[i].energy > 0
          /\ last.before.predators[i].energy
                 > last.before.predators[i].params.initial_energy

\* predator i of the last tick steered toward the nearest entry of the
\* nearby-prey list and moved: it was alive after its upkeep, the entry was
\* measured from its own position, and it neither captured nor reproduced
Chased(i) ==
    LET was == last.before.predators[i]
        n == NearestIndex(last.world_state.nearby_prey)
    IN /\ was.energy > was.params.energy_per_tick * last.world_state.dt
       /\ n > 0
       /\ last.world_state.nearby_prey[n].dist2
              = DistanceTorus2(was.position, last.world_state.nearby_prey[n].position,
                               last.world_state.width, last.world_state.height)
       /\ last.decided.predator_actions[i].type = "None"

\* C37: under the wraparound boundary a predator that steers toward its
\* nearest perceived prey does not end its position update farther, by
\* toroidal distance, from where that prey was perceived than it began
C37_ChaseAlongShorterPath ==
    (Ticked /\ last.world_state.boundary_type = "Wraparound") =>
        \A i \in 1..Len(last.before.predators) :
            Chased(i) =>
                LET target == last.world_state.nearby_prey[
                                  NearestIndex(last.world_state.nearby_prey)].position
                IN DistanceTorus2(last.decided.predators[i].position, target,
                                  last.world_state.width, last.world_state.height)
                       <= DistanceTorus2(last.before.predators[i].position, target,
                                         last.world_state.width, last.world_state.height)

\* the prey of the last update() or of the last call of Prey::update
PreyUpdated == last.op \in {"update", "prey_update"}

\* r has the direction of dir and, up to the truncation of its components,
\* the length max
AtSpeed(r, dir, max) ==
    /\ \A c \in 1..2 : r[c] * dir[c] >= 0
    /\ MagnitudeSquared(r) <= max * max
    /\ MagnitudeSquared(<<Abs(r[1]) + 1, Abs(r[2]) + 1>>) > max * max

\* the branch that prey k took, by what the nearby-predator list held
PreyBranch(k) ==
    LET was == last.before.prey[k]
        now == last.decided.prey[k]
        act == last.decided.prey_actions[k]
        listed == last.world_state.nearby_predators
        dt == last.world_state.dt
        fed == was.energy + was.params.energy_regeneration * dt
        n == NearestIndex(listed)
        near == n > 0 /\ listed[n].dist2 <= was.params.flee_distance * was.params.flee_distance
        steered == IF near THEN Max(fed - was.params.energy_loss_fleeing * dt, 0) ELSE fed
    IN /\ act.type # "Consumed"
       /\ fed > 0 =>
             /\ near =>
                   /\ IF listed[n].position # was.position
                      THEN AtSpeed(now.velocity, Subtract(was.position, listed[n].position),
                                   was.max_speed)
                      ELSE MagnitudeSquared(now.velocity) = was.max_speed * was.max_speed
                   /\ last.decided.prey_energies[k][2] = steered
             /\ (n > 0 /\ ~near) => now.velocity = Scale(was.velocity, 90, 100)
             /\ n = 0 => now.velocity = Scale(was.velocity, 95, 100)
             /\ IF steered >= was.params.reproduction_threshold
                THEN /\ act.type = "Reproduce"
                     /\ now.position = was.position
                     /\ now.energy = Max(steered - was.params.reproduction_cost, 0)
                ELSE /\ act.type = "None"
                     /\ now.position = Moved(was.position, now.velocity, last.world_state)
                     /\ now.energy = steered

\* C38: a prey never returns Consumed, and a prey that is alive after its
\* regeneration takes one movement branch: it flees at max_speed and pays
\* energy_loss_fleeing * dt when the nearest listed predator is at a distance
\* <= flee_distance, scales its velocity by 0.9 when a predator is listed but
\* the nearest is farther, and by 0.95 when none is listed; then, if its
\* energy is at the reproduction threshold, it returns Reproduce and does not
\* move, and otherwise it returns None after one position update
C38_PreyTakesOneBranch ==
    PreyUpdated => \A k \in 1..Len(last.before.prey) : PreyBranch(k)

\* a moving prey that had a predator listed beyond flee_distance slowed down by
\* 0.9, to a velocity which is not the one that 0.95 gives, and moved
C38_Witness ==
    /\ last.op = "prey_update"
    /\ last.world_state.nearby_predators # <<>>
    /\ last.decided.prey[1].velocity = Scale(last.before.prey[1].velocity, 90, 100)
    /\ last.decided.prey[1].velocity # Scale(last.before.prey[1].velocity, 95, 100)
    /\ last.decided.prey_actions[1].type = "None"
    /\ last.decided.prey[1].position # last.before.prey[1].position

\* the spawn points of the Reproduce actions returned in the last update()
\* or in the last call of Prey::update
SpawnPointsAsked ==
    {last.decided.predator_actions[i].position :
        i \in Range(Reproducing(last.decided.predator_actions))}
    \cup {last.decided.prey_actions[k].position :
             k \in Range(Reproducing(last.decided.prey_actions))}

\* C39: the spawn point of every Reproduce action lies in
\* [10, width - 10] x [10, height - 10] of the snapshot's dimensions, and so
\* inside the world rectangle
C39_SpawnPointWithinMargins ==
    PreyUpdated =>
        \A position \in SpawnPointsAsked :
            /\ ReproduceMargin <= position[1]
            /\ position[1] <= last.world_state.width - ReproduceMargin
            /\ ReproduceMargin <= position[2]
            /\ position[2] <= last.world_state.height - ReproduceMargin
            /\ 0 <= position[1] /\ position[1] <= last.world_state.width
            /\ 0 <= position[2] /\ position[2] <= last.world_state.height

\* prey k was alive after its regeneration and fled from a listed predator
\* that was on the prey's own point
FledFromOwnPoint(k) ==
    LET was == last.before.prey[k]
        listed == last.world_state.nearby_predators
        n == NearestIndex(listed)
    IN /\ was.energy + was.params.energy_regeneration * last.world_state.dt > 0
       /\ n > 0
       /\ listed[n].dist2 <= was.params.flee_distance * was.params.flee_distance
       /\ listed[n].position = was.position

\* C40: a prey that flees from a predator on its own point gets a velocity
\* of magnitude max_speed, which for max_speed > 0 is not the zero vector
C40_FleeFromOwnPointNotDegenerate ==
    PreyUpdated =>
        \A k \in 1..Len(last.before.prey) :
            FledFromOwnPoint(k) =>
                LET was == last.before.prey[k]
                    now == last.decided.prey[k]
                IN /\ MagnitudeSquared(now.velocity) = was.max_speed * was.max_speed
                   /\ was.max_speed > 0 => now.velocity # Zero

\* a prey at rest fled from a predator on its own point, in the second of the
\* directions that can be drawn, and moved
C40_Witness ==
    /\ last.op = "prey_update"
    /\ FledFromOwnPoint(1)
    /\ last.before.prey[1].velocity = Zero
    /\ last.arg.flee_angle # DefaultDraw.flee_angle
    /\ last.decided.prey_actions[1].type = "None"
    /\ last.decided.prey[1].position # last.before.prey[1].position

====
